---------------------------- MODULE Spec2Model ----------------------------
(***************************************************************************)
(* Model of the Shovel scan service: the Express server (rate limiter,     *)
(* URL validation, clone, scan, cleanup) and the ProjectScanner heuristic  *)
(* scoring engine.                                                         *)
(*                                                                         *)
(* Strings that the code inspects (file names, paths, URLs, findings) are  *)
(* sequences of tokens, so that extname, startsWith, includes and the URL  *)
(* regular expression are computed and not assumed.  File contents are     *)
(* sets of marker strings with an explicit substring table.                *)
(***************************************************************************)
EXTENDS Integers, Sequences, FiniteSets, TLC

VARIABLES
    \* ---- server (src/unnamed/part_001) ----
    rateLimiter,    \* Map clientIP -> array of admission timestamps
    now,            \* Date.now()
    admissions,     \* history: clientIP -> stamps of every admitted call, never purged
    lastCall,       \* history: the last rateLimit decision
    pc,             \* position of the request being handled
    req,            \* the request being handled
    tempDir,        \* handler local: null or the workspace path
    caught,         \* handler local: message of the caught error
    res,            \* the response sent for the request
    disk,           \* the workspace directories that exist on disk
    trace,          \* history: the steps taken for the current request
    walked,         \* history: the paths the last size walk looked at, in order
    elapsed,        \* handler: the milliseconds the scan() call ran for
    reports,        \* history: the first report returned for each checkout content
    suspended,      \* the number of handlers parked at the await of line 211
    returned,       \* what the last helper applied on its own returned
    waiting,        \* the requests the socket has accepted whose handler has not run yet
    \* ---- scanner (src/scanner.js) ----
    projectPath,    \* the tree at the scanner's projectPath (the checkout)
    stackDetection, \* this.stackDetection
    categories,     \* this.categories
    report,         \* value returned by the last scan()
    scans           \* number of scan() calls made on this instance

vars == <<rateLimiter, now, admissions, lastCall, pc, req, tempDir, caught,
          res, disk, trace, walked, elapsed, reports, suspended, returned, waiting,
          projectPath, stackDetection, categories, report, scans>>

serverVars == <<rateLimiter, now, admissions, lastCall, pc, req, tempDir,
                caught, res, disk, trace, walked, elapsed, reports, suspended,
                returned, waiting>>
scannerVars == <<projectPath, stackDetection, categories, report, scans>>

--------------------------------------------------------------------------
(* Generic helpers on token sequences                                      *)

Max(a, b) == IF a >= b THEN a ELSE b
Min(a, b) == IF a <= b THEN a ELSE b

\* String.prototype.startsWith for a token sequence
startsWith(s, prefix) ==
    /\ Len(s) >= Len(prefix)
    /\ SubSeq(s, 1, Len(prefix)) = prefix

\* String.prototype.includes for token sequences (contiguous occurrence)
includes(s, pattern) ==
    \E i \in 1..(Len(s) + 1) :
        /\ i + Len(pattern) - 1 <= Len(s)
        /\ SubSeq(s, i, i + Len(pattern) - 1) = pattern

\* Array.prototype.join(sep) on an array of token sequences
RECURSIVE join(_, _)
join(parts, sep) ==
    IF parts = <<>> THEN <<>>
    ELSE IF Len(parts) = 1 THEN parts[1]
    ELSE parts[1] \o sep \o join(Tail(parts), sep)

\* call by value: F applied to the value of v, which is computed once
Strict(v, F(_)) == CHOOSE r \in {F(x) : x \in {v}} : TRUE

Range(s) == {s[i] : i \in DOMAIN s}

--------------------------------------------------------------------------
(* File names, paths and contents                                          *)

DOT == "."

\* path.extname: from the last '.' of the base name, '' when there is none
\* or when the only '.' is the leading one
extname(name) ==
    LET dots == {i \in DOMAIN name : name[i] = DOT}
    IN  IF dots = {} THEN <<>>
        ELSE LET last == CHOOSE i \in dots : \A j \in dots : j <= i
             IN  IF last = 1 THEN <<>> ELSE SubSeq(name, last, Len(name))

\* path.relative(projectPath, fullPath) as one string: components joined by '/'
pathString(rel) == join(rel, <<"/">>)

\* Substrings of the marker strings that the heuristics look for.  A marker
\* that is not listed contains only itself.
Substrings(m) ==
    CASE m = "jsonwebtoken" -> {"jsonwebtoken", "token"}
      [] m = "*.env"        -> {"*.env", ".env"}
      [] m = ".env.local"   -> {".env.local", ".env"}
      [] m = "app.get('/api/" -> {"app.get('/api/", "app.get", "/api/"}
      [] OTHER              -> {m}

\* String.prototype.toLowerCase on a marker
toLowerCase(m) ==
    CASE m = "Flask"            -> "flask"
      [] m = "Django"           -> "django"
      [] m = "FastAPI"          -> "fastapi"
      [] m = "process.env.PORT" -> "process.env.port"
      [] m = "Login"            -> "login"
      [] m = "PASSWORD"         -> "password"
      [] m = "Viewport"         -> "viewport"
      [] OTHER                  -> m

\* content.includes(term) on a content given as its set of markers
contentIncludes(text, term) == \E m \in text : term \in Substrings(m)

\* content.toLowerCase()
contentToLowerCase(text) ==
    UNION {{toLowerCase(s) : s \in Substrings(m)} : m \in text}

NoJson == [kind |-> "invalid"]
NullJson == [kind |-> "null"]
NoField == [present |-> FALSE, keys |-> {}]
Field(ks) == [present |-> TRUE, keys |-> ks]
EmptyObject == [kind |-> "object", dependencies |-> NoField,
                devDependencies |-> NoField, scripts |-> NoField]
\* JSON.parse of a number, a string or an array: a value that is not null,
\* whose dependencies, devDependencies and scripts all read as undefined
ScalarJson == [kind |-> "scalar", dependencies |-> NoField,
               devDependencies |-> NoField, scripts |-> NoField]

\* stat.size of the sample files, in bytes
SmallFile == 2 * 1024

SizedFile(name, text, keys, json, size) ==
    [name |-> name, kind |-> "file", children |-> <<>>,
     text |-> text, keys |-> keys, json |-> json, size |-> size]
File(name, text, keys, json) == SizedFile(name, text, keys, json, SmallFile)
Dir(name, children) ==
    [name |-> name, kind |-> "dir", children |-> children,
     text |-> {}, keys |-> <<>>, json |-> NoJson, size |-> 4096]

\* the directory entry reached by a relative path, or a missing entry
Missing == [name |-> <<>>, kind |-> "missing", children |-> <<>>,
            text |-> {}, keys |-> <<>>, json |-> NoJson, size |-> 0]

RECURSIVE lookup(_, _)
lookup(entries, rel) ==
    IF rel = <<>> THEN Missing
    ELSE LET hits == {i \in DOMAIN entries : entries[i].name = Head(rel)}
         IN  IF hits = {} THEN Missing
             ELSE LET e == entries[CHOOSE i \in hits : TRUE]
                  IN  IF Len(rel) = 1 THEN e
                      ELSE IF e.kind = "dir" THEN lookup(e.children, Tail(rel))
                      ELSE Missing

--------------------------------------------------------------------------
(* ProjectScanner helper methods (src/scanner.js)                          *)

PACKAGE_JSON == <<"package", DOT, "json">>
INDEX_HTML   == <<"index", DOT, "html">>
TSCONFIG     == <<"tsconfig", DOT, "json">>
DOCKERFILE   == <<"Dockerfile">>
DOTENV       == <<DOT, "env">>
DOTENV_LOCAL == <<DOT, "env", DOT, "local">>
DOTENV_PROD  == <<DOT, "env", DOT, "production">>
GITIGNORE    == <<DOT, "gitignore">>
NODE_MODULES == <<"node_modules">>
ENV_EXAMPLE  == <<DOT, "env", DOT, "example">>

Ext(e) == <<DOT, e>>

\* fs.existsSync(path.join(projectPath, relativePath))
fileExists(tree, relativePath) == lookup(tree, relativePath).kind # "missing"

\* fs.readFileSync(..., 'utf-8'), '' when the read throws (missing path or
\* a directory)
readFile(tree, relativePath) ==
    LET e == lookup(tree, relativePath)
    IN  IF e.kind = "file" THEN e ELSE File(relativePath[Len(relativePath)], {}, <<>>, NoJson)

\* JSON.parse(readFile(p)), {} when parsing throws
readJsonFile(tree, relativePath) ==
    LET content == readFile(tree, relativePath)
    IN  IF content.json.kind = "invalid" THEN EmptyObject ELSE content.json

\* Object.keys(obj || {})
keysOrEmpty(field) == IF field.present THEN field.keys ELSE {}

\* Object.keys({...(dependencies || {}), ...(devDependencies || {})})
allDepsOf(packageJson) ==
    keysOrEmpty(packageJson.dependencies) \cup keysOrEmpty(packageJson.devDependencies)

\* packageJson.scripts && packageJson.scripts.<key>
hasScript(packageJson, key) ==
    packageJson.scripts.present /\ key \in packageJson.scripts.keys

\* this.projectPath (lines 6-8): the path the scanner was constructed on, as
\* its components; the server constructs it on tempDir
scannerRoot == << <<tempDir>> >>

\* path.join(dir, name) on paths given as their components
pathJoin(dir, name) == Append(dir, name)

\* path.relative(from, to) for the paths searchDir forms: the components of
\* to below from, or to itself were it not below from
pathRelative(from, to) ==
    IF startsWith(to, from) THEN SubSeq(to, Len(from) + 1, Len(to)) ELSE to

\* a finding that names the file by its location in the workspace
pathInFinding_absolute(file) == pathString(scannerRoot \o file)

\* `${file}` in a finding: the path as one string
pathInFinding(file) == pathString(file)

\* a rule that keeps out hidden directories only
skippedDir_hiddenOnly(name) == startsWith(name, <<DOT>>)

\* line 548: the directories searchDir does not enter
skippedDir(name) == startsWith(name, <<DOT>>) \/ name = NODE_MODULES

RECURSIVE searchDir(_, _, _, _)
searchDir(entries, dir, extensions, namePatterns) ==
    IF entries = <<>> THEN <<>>
    ELSE LET entry == Head(entries)
             fullPath == pathJoin(dir, entry.name)
             relativePath == pathRelative(scannerRoot, fullPath)
             found ==
                 IF entry.kind = "dir" /\ ~skippedDir(entry.name)
                 THEN searchDir(entry.children, fullPath, extensions, namePatterns)
                 ELSE IF /\ entry.kind = "file"
                         /\ extname(entry.name) \in extensions
                         /\ \/ namePatterns = {}
                            \/ \E pattern \in namePatterns : includes(entry.name, pattern)
                      THEN <<relativePath>>
                      ELSE <<>>
         IN  found \o searchDir(Tail(entries), dir, extensions, namePatterns)

searchInFiles(tree, extensions, namePatterns) ==
    searchDir(tree, scannerRoot, extensions, namePatterns)

getAllFiles(tree, extensions) == searchInFiles(tree, extensions, {})

\* a slice that takes one file more
fileScanCap_wide == 50 + 1

\* line 575: files.slice(0, 50)
fileScanCap == 50

ContentExtensions ==
    {Ext("js"), Ext("ts"), Ext("jsx"), Ext("tsx"), Ext("py"), Ext("html"), Ext("json")}

\* lines 575-580: the loop over the sliced list; it returns at the first
\* file whose lower-cased content includes the lower-cased term.  read
\* lists the files handed to readFile, in order.
RECURSIVE contentLoop(_, _, _, _)
contentLoop(tree, files, term, read) ==
    IF files = <<>> THEN [found |-> FALSE, read |-> read]
    ELSE IF term \in contentToLowerCase(readFile(tree, Head(files)).text)
         THEN [found |-> TRUE, read |-> Append(read, Head(files))]
         ELSE contentLoop(tree, Tail(files), term, Append(read, Head(files)))

\* lines 572-585 with the files it read: files.slice(0, 50), then the loop
contentSearch(tree, searchTerm) ==
    LET sliced(files) ==
            contentLoop(tree, SubSeq(files, 1, Min(Len(files), fileScanCap)),
                        toLowerCase(searchTerm), <<>>)
    IN  Strict(getAllFiles(tree, ContentExtensions), sliced)

\* true iff one of the first fileScanCap candidate files contains the term,
\* compared in lower case
searchInContent(tree, searchTerm) == contentSearch(tree, searchTerm).found

--------------------------------------------------------------------------
(* Stack detection                                                         *)

detectFramework(tree) ==
    IF fileExists(tree, <<PACKAGE_JSON>>)
    THEN LET deps == keysOrEmpty(readJsonFile(tree, <<PACKAGE_JSON>>).dependencies)
         IN  IF "next" \in deps THEN "Next.js"
             ELSE IF "react" \in deps THEN "React"
             ELSE IF "vue" \in deps THEN "Vue.js"
             ELSE IF "svelte" \in deps THEN "Svelte"
             ELSE "None"
    ELSE "None"

detectBuildTool(tree) ==
    IF fileExists(tree, <<PACKAGE_JSON>>)
    THEN LET packageJson == readJsonFile(tree, <<PACKAGE_JSON>>)
             deps == allDepsOf(packageJson)
         IN  IF "vite" \in deps THEN "Vite"
             ELSE IF "webpack" \in deps THEN "Webpack"
             ELSE IF hasScript(packageJson, "build") THEN "npm scripts"
             ELSE "None"
    ELSE "None"

\* the technologies pushed for a manifest, in push order
manifestTech(tree) ==
    LET packageJson == readJsonFile(tree, <<PACKAGE_JSON>>)
        allDeps == allDepsOf(packageJson)
        tech(dep, label) == IF dep \in allDeps THEN <<label>> ELSE <<>>
    IN  <<"Node.js">> \o
        (IF packageJson.dependencies.present
         THEN tech("next", "Next.js") \o tech("react", "React")
              \o tech("vue", "Vue.js") \o tech("svelte", "Svelte")
              \o tech("express", "Express") \o tech("fastify", "Fastify")
              \o tech("vite", "Vite") \o tech("webpack", "Webpack")
              \o tech("tailwindcss", "Tailwind CSS")
              \o (IF "typescript" \in allDeps \/ fileExists(tree, <<TSCONFIG>>)
                  THEN <<"TypeScript">> ELSE <<>>)
         ELSE <<>>)

pythonTech(tree) ==
    LET requirementsContent ==
            IF fileExists(tree, <<<<"requirements", DOT, "txt">>>>)
            THEN readFile(tree, <<<<"requirements", DOT, "txt">>>>).text
            ELSE {}
        tech(term, label) ==
            IF contentIncludes(requirementsContent, term) THEN <<label>> ELSE <<>>
    IN  <<"Python">> \o tech("django", "Django") \o tech("flask", "Flask")
        \o tech("fastapi", "FastAPI")

detectStack(tree) ==
    LET t1 == IF fileExists(tree, <<PACKAGE_JSON>>) THEN manifestTech(tree) ELSE <<>>
        t2 == IF \/ fileExists(tree, <<<<"requirements", DOT, "txt">>>>)
                 \/ fileExists(tree, <<<<"pyproject", DOT, "toml">>>>)
              THEN t1 \o pythonTech(tree) ELSE t1
        t3 == IF \/ fileExists(tree, <<DOCKERFILE>>)
                 \/ fileExists(tree, <<<<"docker-compose", DOT, "yml">>>>)
              THEN Append(t2, "Docker") ELSE t2
        detectedTech ==
              IF /\ fileExists(tree, <<INDEX_HTML>>)
                 /\ "React" \notin Range(t3)
                 /\ "Vue.js" \notin Range(t3)
              THEN Append(t3, "Static HTML") ELSE t3
    IN  [technologies   |-> detectedTech,
         hasPackageJson |-> fileExists(tree, <<PACKAGE_JSON>>),
         hasDockerfile  |-> fileExists(tree, <<DOCKERFILE>>),
         hasTypeScript  |-> \/ fileExists(tree, <<TSCONFIG>>)
                            \/ Len(searchInFiles(tree, {Ext("ts"), Ext("tsx")}, {})) > 0,
         framework      |-> detectFramework(tree),
         buildTool      |-> detectBuildTool(tree)]


--------------------------------------------------------------------------
(* Category scorers.  Each returns the CategoryScore that the method       *)
(* pushes on this.categories.                                              *)

Category(name, score, status, findings, suggestion, fixAvailable) ==
    [name |-> name, score |-> score, status |-> status, findings |-> findings,
     suggestion |-> suggestion, fixAvailable |-> fixAvailable]

\* findings.push(text) when cond holds
push(cond, finding) == IF cond THEN <<finding>> ELSE <<>>
pts(cond, n) == IF cond THEN n ELSE 0

frontendStatus(score) ==
    IF score >= 70 THEN "pass" ELSE IF score >= 40 THEN "warning" ELSE "critical"

\* the static-markup branch awarding the framework's points
staticHtmlPoints_asFramework == 20 + 20

staticHtmlPoints == 20

scoreFrontend(tree, stack) ==
    LET hasFramework == stack.framework # "None"
        hasIndex == ~hasFramework /\ fileExists(tree, <<INDEX_HTML>>)
        hasBuild == stack.buildTool # "None"
        hasStyle ==
            /\ fileExists(tree, <<PACKAGE_JSON>>)
            /\ \/ "tailwindcss" \in allDepsOf(readJsonFile(tree, <<PACKAGE_JSON>>))
               \/ Len(searchInFiles(tree, {Ext("css")}, {})) > 0
        responsive ==
            \/ searchInContent(tree, "viewport")
            \/ searchInContent(tree, "responsive")
            \/ searchInContent(tree, "@media")
        score == pts(hasFramework, 40) + pts(hasIndex, staticHtmlPoints)
                 + pts(hasBuild, 30) + pts(hasStyle, 20) + pts(responsive, 10)
        findings ==
            (IF hasFramework THEN <<<<stack.framework, " framework detected">>>>
             ELSE IF hasIndex THEN <<<<"Static HTML frontend detected">>>>
             ELSE <<<<"No frontend files detected">>>>)
            \o push(hasBuild, <<"Build tool configured: ", stack.buildTool>>)
            \o push(hasStyle, <<"Styling framework/CSS detected">>)
            \o push(responsive, <<"Responsive design patterns found">>)
    IN  Category("Frontend", Min(score, 100), frontendStatus(score), findings,
                 IF score < 70
                 THEN "Add a modern frontend framework like React or Vue.js with proper build configuration"
                 ELSE "Frontend looks good",
                 score < 70)

\* warning threshold compared with > instead of >=
backendStatus_exclusive(score) ==
    IF score >= 70 THEN "pass" ELSE IF score > 30 THEN "warning" ELSE "critical"

backendStatus(score) ==
    IF score >= 70 THEN "pass" ELSE IF score >= 30 THEN "warning" ELSE "critical"

scoreBackend(tree, stack) ==
    LET backendFiles ==
            searchInFiles(tree, {Ext("js"), Ext("ts"), Ext("py")},
                          {<<"server">>, <<"app">>, <<"main">>, <<"index">>})
        hasFiles == Len(backendFiles) > 0
        node == \/ searchInContent(tree, "express()")
                \/ searchInContent(tree, "app.listen")
                \/ searchInContent(tree, "fastify()")
        python == /\ ~node
                  /\ \/ searchInContent(tree, "Flask")
                     \/ searchInContent(tree, "Django")
                     \/ searchInContent(tree, "FastAPI")
        routes == \/ searchInContent(tree, "/api/")
                  \/ searchInContent(tree, "app.get")
                  \/ searchInContent(tree, "app.post")
                  \/ searchInContent(tree, "@app.route")
        score == pts(hasFiles, 30) + pts(node, 40) + pts(python, 40) + pts(routes, 30)
        findings ==
            push(hasFiles, <<"Backend entry points detected">>)
            \o push(node, <<"Node.js server framework detected">>)
            \o push(python, <<"Python web framework detected">>)
            \o (IF routes THEN <<<<"API routes detected">>>> ELSE <<<<"No API routes found">>>>)
            \o push(score = 0, <<"No backend detected">>)
    IN  Category("Backend", Min(score, 100), backendStatus(score), findings,
                 IF score < 70
                 THEN "Add a backend server with API endpoints using Express.js or similar"
                 ELSE "Backend implementation looks good",
                 score < 70)

authLibs ==
    <<"@clerk/nextjs", "@clerk/react", "@auth0/auth0-react", "next-auth", "firebase",
      "@supabase/auth-helpers", "passport", "jsonwebtoken", "bcrypt">>

\* libs.filter(lib => allDeps.includes(lib)).join(', ')
detectedNames(libs, allDeps) ==
    LET inDeps(lib) == lib \in allDeps
        hit == SelectSeq(libs, inDeps)
    IN  join([i \in DOMAIN hit |-> <<hit[i]>>], <<", ">>)

authenticationStatus(score) ==
    IF score >= 70 THEN "pass" ELSE IF score >= 40 THEN "warning" ELSE "critical"

scoreAuthentication(tree, stack) ==
    LET allDeps == IF fileExists(tree, <<PACKAGE_JSON>>)
                   THEN allDepsOf(readJsonFile(tree, <<PACKAGE_JSON>>)) ELSE {}
        detectedAuth == detectedNames(authLibs, allDeps)
        hasLib == Len(detectedAuth) > 0
        login == searchInContent(tree, "login") /\ searchInContent(tree, "password")
        token == \/ searchInContent(tree, "jwt")
                 \/ searchInContent(tree, "token")
                 \/ searchInContent(tree, "session")
        score == pts(hasLib, 60) + pts(login, 20) + pts(token, 20)
        findings ==
            push(hasLib, <<"Authentication library detected: ">> \o detectedAuth)
            \o push(login, <<"Login functionality detected">>)
            \o push(token, <<"Token/session management detected">>)
            \o push(score = 0, <<"No authentication system detected">>)
    IN  Category("Authentication", Min(score, 100), authenticationStatus(score), findings,
                 IF score < 70 THEN "Add authentication with Clerk, Auth0, or NextAuth.js"
                 ELSE "Authentication system in place",
                 score < 70)

orms == <<"prisma", "@prisma/client", "drizzle-orm", "mongoose", "typeorm", "sequelize">>
dbClients ==
    <<"@supabase/supabase-js", "firebase", "mongodb", "mysql2", "pg", "sqlite3",
      "better-sqlite3">>

databaseStatus(score) ==
    IF score >= 70 THEN "pass" ELSE IF score >= 30 THEN "warning" ELSE "critical"

scoreDatabase(tree, stack) ==
    LET allDeps == IF fileExists(tree, <<PACKAGE_JSON>>)
                   THEN allDepsOf(readJsonFile(tree, <<PACKAGE_JSON>>)) ELSE {}
        detectedOrm == detectedNames(orms, allDeps)
        detectedDb == detectedNames(dbClients, allDeps)
        hasOrm == Len(detectedOrm) > 0
        hasDb == Len(detectedDb) > 0
        schema == \/ fileExists(tree, <<<<"prisma">>, <<"schema", DOT, "prisma">>>>)
                  \/ fileExists(tree, <<<<"drizzle", DOT, "config", DOT, "js">>>>)
                  \/ Len(searchInFiles(tree, {Ext("sql")}, {})) > 0
        score == pts(hasOrm, 50) + pts(hasDb, 30) + pts(schema, 20)
        findings ==
            push(hasOrm, <<"ORM detected: ">> \o detectedOrm)
            \o push(hasDb, <<"Database client detected: ">> \o detectedDb)
            \o push(schema, <<"Database schema files detected">>)
            \o push(score = 0, <<"No database integration detected">>)
    IN  Category("Database", Min(score, 100), databaseStatus(score), findings,
                 IF score < 70 THEN "Add database integration with Prisma, Supabase, or similar"
                 ELSE "Database integration looks good",
                 score < 70)

\* devDependencies forgotten
paymentDeps_directOnly(packageJson) == keysOrEmpty(packageJson.dependencies)

\* the dependency names scorePayments looks at
paymentDeps(packageJson) == allDepsOf(packageJson)

scorePayments(tree, stack) ==
    LET allDeps == IF fileExists(tree, <<PACKAGE_JSON>>)
                   THEN paymentDeps(readJsonFile(tree, <<PACKAGE_JSON>>)) ELSE {}
        stripe == "stripe" \in allDeps \/ "@stripe/stripe-js" \in allDeps
        paddle == ~stripe /\ "@paddle/paddle-js" \in allDeps
        lemon == ~stripe /\ ~paddle /\ "@lemon-squeezy/lemon-squeezy-js" \in allDeps
        score == IF stripe \/ paddle \/ lemon THEN 100 ELSE 0
        findings ==
            push(stripe, <<"Stripe payment integration detected">>)
            \o push(paddle, <<"Paddle payment integration detected">>)
            \o push(lemon, <<"Lemon Squeezy payment integration detected">>)
            \o push(score = 0, <<"No payment system detected">>)
    IN  Category("Payments", score, IF score = 0 THEN "warning" ELSE "pass", findings,
                 IF score = 0
                 THEN "Consider adding payment processing with Stripe for monetization"
                 ELSE "Payment system integrated",
                 score = 0)


\* /sk_.../g, /pk_.../g, /ghp_.../g, /AKIA.../g, /[a-zA-Z0-9]{32,}/g
apiKeyPatterns == <<"sk", "pk", "ghp", "akia", "generic">>

\* RegExp.prototype.test of a pattern with the g flag: the search starts at
\* the pattern's lastIndex; a match moves lastIndex to the end of the match,
\* a failure resets it to 0.  keys lists the key-shaped literals of the
\* content with their positions and the patterns each one matches.
regexTest(keys, pattern, lastIndex) ==
    LET hits == {i \in DOMAIN keys :
                    pattern \in keys[i].pats /\ keys[i].start >= lastIndex}
    IN  IF hits = {} THEN [matched |-> FALSE, lastIndex |-> 0]
        ELSE LET first == CHOOSE i \in hits :
                              \A j \in hits : keys[i].start <= keys[j].start
             IN  [matched |-> TRUE, lastIndex |-> keys[first].end]

keyDeduction == 30

RECURSIVE patternLoop(_, _, _, _)
patternLoop(file, content, i, state) ==
    LET body(st) ==
            IF i > Len(apiKeyPatterns) THEN st
            ELSE LET t == regexTest(content.keys, apiKeyPatterns[i], st.lastIndex[i])
                     hit == t.matched /\ ~includes(pathString(file), ENV_EXAMPLE)
                 IN  patternLoop(file, content, i + 1,
                         [score     |-> st.score - pts(hit, keyDeduction),
                          findings  |-> st.findings \o
                                        push(hit, <<"Potential hardcoded API key found in ">>
                                                  \o pathInFinding(file)),
                          status    |-> IF hit THEN "critical" ELSE st.status,
                          lastIndex |-> [st.lastIndex EXCEPT ![i] = t.lastIndex]])
    IN  Strict(state, body)

RECURSIVE keyFileLoop(_, _, _)
keyFileLoop(tree, files, st) ==
    IF files = <<>> THEN st
    ELSE keyFileLoop(tree, Tail(files),
                     patternLoop(Head(files), readFile(tree, Head(files)), 1, st))

\* lines 374-379: a committed dotenv file
dotenvCheck(tree) ==
    IF \/ fileExists(tree, <<DOTENV>>)
       \/ fileExists(tree, <<DOTENV_LOCAL>>)
       \/ fileExists(tree, <<DOTENV_PROD>>)
    THEN [score |-> 100 - 50, status |-> "critical",
          findings |-> <<<<"CRITICAL: ", DOT, "env", " file committed to repository">>>>]
    ELSE [score |-> 100, status |-> "pass", findings |-> <<>>]

\* lines 402-414: the .gitignore checks
gitignoreCheck(tree, state) ==
    LET body(st) ==
            IF ~fileExists(tree, <<GITIGNORE>>)
            THEN [score |-> st.score - 20,
                  findings |-> Append(st.findings,
                                      <<"No ", DOT, "gitignore", " file found">>),
                  status |-> IF st.status = "pass" THEN "warning" ELSE st.status]
            ELSE LET gitignoreContent == readFile(tree, <<GITIGNORE>>).text
                 IN  IF /\ ~contentIncludes(gitignoreContent, ".env")
                        /\ ~contentIncludes(gitignoreContent, "*.env")
                     THEN [score |-> st.score - 15,
                           findings |-> Append(st.findings,
                               <<DOT, "env", " files not ignored in ", DOT, "gitignore">>),
                           status |-> IF st.status = "pass" THEN "warning" ELSE st.status]
                     ELSE [score |-> st.score, findings |-> st.findings,
                           status |-> st.status]
    IN  Strict(state, body)

\* the floor left out
securityFloor_none(score) == score

\* line 422: score = Math.max(0, score)
securityFloor(score) == Max(0, score)

\* the critical guard left out: the numeric score alone decides
securityStatus_noGuard(score, status) ==
    IF score >= 80 THEN "pass"
    ELSE IF score >= 50 THEN "warning"
    ELSE status

\* pass threshold compared with > instead of >=
securityStatus_exclusive(score, status) ==
    IF score > 80 /\ status # "critical" THEN "pass"
    ELSE IF score >= 50 /\ status # "critical" THEN "warning"
    ELSE status

\* lines 424-425
securityStatus(score, status) ==
    IF score >= 80 /\ status # "critical" THEN "pass"
    ELSE IF score >= 50 /\ status # "critical" THEN "warning"
    ELSE status

KeyExtensions ==
    {Ext("js"), Ext("ts"), Ext("jsx"), Ext("tsx"), Ext("py"), ENV_EXAMPLE}

scoreSecurity(tree, stack) ==
    LET s0 == dotenvCheck(tree)
        allFiles == getAllFiles(tree, KeyExtensions)
        s1 == keyFileLoop(tree, allFiles,
                  [score |-> s0.score, findings |-> s0.findings, status |-> s0.status,
                   lastIndex |-> [i \in DOMAIN apiKeyPatterns |-> 0]])
        middleware == searchInContent(tree, "cors") \/ searchInContent(tree, "helmet")
        result(s2) ==
            LET findings ==
                    s2.findings
                    \o push(middleware, <<"Security middleware (CORS/Helmet) detected">>)
                score == securityFloor(s2.score)
            IN  Category("Security", score, securityStatus(score, s2.status), findings,
                    IF score < 80
                    THEN "Review security practices: avoid committing secrets, add .gitignore, use environment variables"
                    ELSE "Security practices look good",
                    score < 80)
    IN  Strict(gitignoreCheck(tree, s1), result)

deploymentStatus(score) ==
    IF score >= 70 THEN "pass" ELSE IF score >= 40 THEN "warning" ELSE "critical"

scoreDeploymentReady(tree, stack) ==
    LET hasPkg == fileExists(tree, <<PACKAGE_JSON>>)
        packageJson == readJsonFile(tree, <<PACKAGE_JSON>>)
        build == hasPkg /\ hasScript(packageJson, "build")
        start == hasPkg /\ hasScript(packageJson, "start")
        port == hasPkg /\ searchInContent(tree, "process.env.PORT")
        docker == fileExists(tree, <<DOCKERFILE>>)
        config == \/ fileExists(tree, <<<<"vercel", DOT, "json">>>>)
                  \/ fileExists(tree, <<<<"netlify", DOT, "toml">>>>)
                  \/ fileExists(tree, <<<<DOT, "railway", DOT, "json">>>>)
        score == pts(build, 25) + pts(start, 25) + pts(port, 20) + pts(docker, 30)
        findings ==
            push(build, <<"Build script configured">>)
            \o push(start, <<"Start script configured">>)
            \o push(port, <<"PORT environment variable handling detected">>)
            \o push(docker, <<"Dockerfile present">>)
            \o push(config, <<"Deployment configuration file detected">>)
            \o push(score = 0, <<"No deployment configuration detected">>)
    IN  Category("Deployment Ready", Min(score, 100), deploymentStatus(score), findings,
                 IF score < 70
                 THEN "Add build/start scripts and environment variable handling for deployment"
                 ELSE "Ready for deployment",
                 score < 70)

--------------------------------------------------------------------------
(* Aggregation.  The weights are kept as hundredths; Math.round of the     *)
(* weighted sum is the sum of hundredths plus 50, divided by 100.  For the *)
(* scores the scorers can emit (multiples of 5) the double arithmetic of   *)
(* the code yields exactly this integer in every summation order.          *)

\* the weights of Payments and Deployment Ready exchanged
weights_swapped(name) ==
    CASE name = "Frontend"         -> 20
      [] name = "Backend"          -> 15
      [] name = "Authentication"   -> 15
      [] name = "Database"         -> 15
      [] name = "Payments"         -> 15
      [] name = "Security"         -> 10
      [] name = "Deployment Ready" -> 10
      [] OTHER                     -> 0

weights(name) ==
    CASE name = "Frontend"         -> 20
      [] name = "Backend"          -> 15
      [] name = "Authentication"   -> 15
      [] name = "Database"         -> 15
      [] name = "Payments"         -> 10
      [] name = "Security"         -> 10
      [] name = "Deployment Ready" -> 15
      [] OTHER                     -> 0

RECURSIVE totalScore(_)
totalScore(cats) ==
    IF cats = <<>> THEN 0
    ELSE Head(cats).score * weights(Head(cats).name) + totalScore(Tail(cats))

calculateShipScore(cats) == (totalScore(cats) + 50) \div 100

\* the seven categories that one scan() pushes, in call order
scoreAll(tree, stack) ==
    <<scoreFrontend(tree, stack), scoreBackend(tree, stack),
      scoreAuthentication(tree, stack), scoreDatabase(tree, stack),
      scorePayments(tree, stack), scoreSecurity(tree, stack),
      scoreDeploymentReady(tree, stack)>>


--------------------------------------------------------------------------
(* Bounded inputs: the workspaces a scanner is constructed on              *)

MaxDeps == 1      \* most entries in "dependencies"
MaxDevDeps == 1   \* most entries in "devDependencies"
MaxScans == 2     \* most scan() calls on one ProjectScanner

DepNames == {"react", "jsonwebtoken", "prisma", "stripe"}
DevDepNames == {"next", "@paddle/paddle-js"}

FieldChoices(names, max) ==
    {NoField} \cup {Field(ks) : ks \in {k \in SUBSET names : Cardinality(k) <= max}}

ScriptChoices == {NoField, Field({"build"}), Field({"build", "start"})}

\* a package.json whose text is its JSON: every key is a marker of the text
PackageJsonFile(deps, devDeps, scripts) ==
    File(PACKAGE_JSON,
         {"dependencies", "devDependencies", "scripts"}
             \cup keysOrEmpty(deps) \cup keysOrEmpty(devDeps) \cup keysOrEmpty(scripts),
         <<>>,
         [kind |-> "object", dependencies |-> deps, devDependencies |-> devDeps,
          scripts |-> scripts])

ManifestChoices ==
    {<<>>, <<File(PACKAGE_JSON, {"not json"}, <<>>, NoJson)>>,
     <<File(PACKAGE_JSON, {"null"}, <<>>, NullJson)>>,
     <<File(PACKAGE_JSON, {"[]"}, <<>>, ScalarJson)>>}
    \cup {<<PackageJsonFile(d, dd, sc)>> :
              d \in FieldChoices(DepNames, MaxDeps),
              dd \in FieldChoices(DevDepNames, MaxDevDeps) \ {Field({})},
              sc \in ScriptChoices}

IndexHtmlChoices ==
    {<<>>,
     <<File(INDEX_HTML, {}, <<>>, NoJson)>>,
     <<File(INDEX_HTML, {"Viewport", "Login", "PASSWORD", "session"}, <<>>, NoJson)>>}

ServerText == {"express()", "app.get('/api/", "process.env.PORT", "cors"}

\* one literal that /sk_.../ matches and whose tail /[a-zA-Z0-9]{32,}/ matches
SecretKey == [start |-> 10, end |-> 50, pats |-> {"sk", "generic"}]

ServerJsChoices ==
    {<<>>,
     <<File(<<"server", DOT, "js">>, {}, <<>>, NoJson)>>,
     <<File(<<"server", DOT, "js">>, ServerText, <<>>, NoJson)>>,
     <<File(<<"server", DOT, "js">>, ServerText, <<SecretKey>>, NoJson)>>}

\* a literal at the very start of a file, matched as SecretKey is
EarlyKey == [start |-> 0, end |-> 40, pats |-> {"sk", "generic"}]

\* a module that holds a key literal and nothing else of note; it is listed
\* before server.js
LibJsChoices ==
    {<<>>,
     <<File(<<"lib", DOT, "js">>, {}, <<EarlyKey>>, NoJson)>>}

DotenvChoices ==
    {<<>>,
     <<File(DOTENV, {"SECRET=1"}, <<>>, NoJson)>>,
     <<File(DOTENV_PROD, {"SECRET=1"}, <<>>, NoJson)>>}

GitignoreChoices ==
    {<<>>,
     <<File(GITIGNORE, {"node_modules"}, <<>>, NoJson)>>,
     <<File(GITIGNORE, {"node_modules", ".env.local"}, <<>>, NoJson)>>}

\* a container descriptor together with a db directory (schema and stylesheet)
ExtraChoices ==
    {<<>>,
     <<File(DOCKERFILE, {"FROM node"}, <<>>, NoJson),
       Dir(<<"db">>, <<File(<<"schema", DOT, "sql">>, {"CREATE TABLE"}, <<>>, NoJson),
                       File(<<"style", DOT, "css">>, {"@media"}, <<>>, NoJson)>>)>>}

\* workspaces that vary the manifest, the page and the extra files (root
\* entries in directory-listing order)
ManifestWorkspaces ==
    {extra \o html \o manifest \o server :
        extra \in ExtraChoices, html \in IndexHtmlChoices,
        manifest \in ManifestChoices,
        server \in ServerJsChoices}

\* workspaces that vary the security signals
SecurityWorkspaces ==
    {env \o ign \o html \o lib \o manifest \o server :
        env \in DotenvChoices, ign \in GitignoreChoices,
        html \in {<<>>, <<File(INDEX_HTML, {}, <<>>, NoJson)>>},
        lib \in LibJsChoices,
        manifest \in {<<>>, <<PackageJsonFile(Field({"stripe"}), NoField, NoField)>>},
        server \in ServerJsChoices}

Workspaces == ManifestWorkspaces \cup SecurityWorkspaces

--------------------------------------------------------------------------
(* ProjectScanner: constructor and scan()                                  *)

NoStack == [technologies |-> <<>>, hasPackageJson |-> FALSE, hasDockerfile |-> FALSE,
            hasTypeScript |-> FALSE, framework |-> "undefined", buildTool |-> "undefined"]
NoReport == [shipScore |-> -1, stackDetection |-> NoStack, categories |-> <<>>,
             error |-> <<>>]

\* detectStack reads packageJson.dependencies (line 49): a manifest whose
\* JSON is null raises a TypeError, which scan() rethrows (lines 35-37)
scanThrows(tree) ==
    /\ fileExists(tree, <<PACKAGE_JSON>>)
    /\ readJsonFile(tree, <<PACKAGE_JSON>>).kind = "null"

ScanFailed ==
    [shipScore |-> -1, stackDetection |-> NoStack, categories |-> <<>>,
     error |-> <<"Scan failed: ", "Cannot read properties of null">>]

\* the value scan() settles with on a scanner holding the categories cats
scanResult(tree, cats) ==
    IF scanThrows(tree) THEN ScanFailed
    ELSE LET scored(stack) ==
                 LET result(all) ==
                         [shipScore |-> calculateShipScore(all), stackDetection |-> stack,
                          categories |-> all, error |-> <<>>]
                 IN  Strict(cats \o scoreAll(tree, stack), result)
         IN  Strict(detectStack(tree), scored)

NoCall == [client |-> "none", time |-> 0, allowed |-> FALSE,
           rejected |-> FALSE]

\* the server is idle in the scanner specifications
ServerIdle ==
    /\ rateLimiter = <<>>
    /\ now = 0
    /\ admissions = <<>>
    /\ lastCall = NoCall
    /\ pc = "idle"
    /\ req = [client |-> "none", repoUrl |-> <<>>]
    /\ tempDir = "null"
    /\ caught = <<>>
    /\ res = [status |-> 0, error |-> "none", data |-> NoReport]
    /\ disk = {}
    /\ trace = <<>>
    /\ walked = <<>>
    /\ elapsed = 0
    /\ reports = <<>>
    /\ suspended = 0
    /\ returned = <<>>
    /\ waiting = <<>>

\* new ProjectScanner(projectPath)
InitScan ==
    /\ ServerIdle
    /\ projectPath \in Workspaces
    /\ stackDetection = NoStack
    /\ categories = <<>>
    /\ report = NoReport
    /\ scans = 0

\* scanner.scan(): detectStack, the seven scorers, calculateShipScore
scan ==
    /\ scans < MaxScans
    /\ \E result \in {scanResult(projectPath, categories)} :
           /\ report' = result
           /\ IF result.error = <<>>
              THEN /\ stackDetection' = result.stackDetection
                   /\ categories' = result.categories
              ELSE UNCHANGED <<stackDetection, categories>>
    /\ scans' = scans + 1
    /\ UNCHANGED <<projectPath, serverVars>>

NextScan == scan

SpecScan == InitScan /\ [][NextScan]_vars


--------------------------------------------------------------------------
(* calculateShipScore as a pure function of the category list              *)

AggNames == <<"Frontend", "Backend", "Authentication", "Database", "Payments",
              "Security", "Deployment Ready", "Unknown">>

\* scores each scorer can emit, two per category
AggScores(name) ==
    CASE name = "Frontend"         -> {20, 90}
      [] name = "Backend"          -> {30, 70}
      [] name = "Authentication"   -> {40, 80}
      [] name = "Database"         -> {50}
      [] name = "Payments"         -> {0, 100}
      [] name = "Security"         -> {5, 85}
      [] name = "Deployment Ready" -> {25, 75}
      [] OTHER                     -> {100}

Reverse(s) == [i \in DOMAIN s |-> s[Len(s) + 1 - i]]
Rotate(s) == IF s = <<>> THEN s ELSE Append(Tail(s), Head(s))

\* the categories named by present, scored by score, in AggNames order
RECURSIVE AggList(_, _, _)
AggList(i, present, score) ==
    IF i > Len(AggNames) THEN <<>>
    ELSE (IF AggNames[i] \in present
          THEN <<Category(AggNames[i], score[AggNames[i]], "pass", <<>>, "", FALSE)>>
          ELSE <<>>) \o AggList(i + 1, present, score)

InitAgg ==
    /\ ServerIdle
    /\ projectPath = <<>>
    /\ stackDetection = NoStack
    /\ \E present \in SUBSET Range(AggNames) :
       \E f1 \in AggScores("Frontend"), f2 \in AggScores("Backend"),
          f3 \in AggScores("Authentication"), f4 \in AggScores("Database"),
          f5 \in AggScores("Payments"), f6 \in AggScores("Security"),
          f7 \in AggScores("Deployment Ready") :
           LET score == [n \in Range(AggNames) |->
                            CASE n = "Frontend" -> f1 [] n = "Backend" -> f2
                              [] n = "Authentication" -> f3 [] n = "Database" -> f4
                              [] n = "Payments" -> f5 [] n = "Security" -> f6
                              [] n = "Deployment Ready" -> f7 [] OTHER -> 100]
               list == AggList(1, present, score)
           IN  categories \in {list, Reverse(list), Rotate(list)}
    /\ report = NoReport
    /\ scans = 0

\* const shipScore = this.calculateShipScore() on the categories present
aggregate ==
    /\ scans = 0
    /\ report' = [shipScore |-> calculateShipScore(categories),
                  stackDetection |-> stackDetection, categories |-> categories,
                  error |-> <<>>]
    /\ scans' = 1
    /\ UNCHANGED <<projectPath, stackDetection, categories, serverVars>>

NextAgg == aggregate

SpecAgg == InitAgg /\ [][NextAgg]_vars


--------------------------------------------------------------------------
(* Properties of the scanner                                               *)

Emitted(name) == {i \in DOMAIN categories : categories[i].name = name}

\* every emitted category of that name has this score and status
Yields(name, score, status) ==
    \A i \in Emitted(name) :
        categories[i].score = score /\ categories[i].status = status

ScoreOrZero(cats, name) ==
    IF \E i \in DOMAIN cats : cats[i].name = name
    THEN cats[CHOOSE i \in DOMAIN cats : cats[i].name = name].score
    ELSE 0

WeightedHundredths(cats) ==
    20 * ScoreOrZero(cats, "Frontend") + 15 * ScoreOrZero(cats, "Backend")
    + 15 * ScoreOrZero(cats, "Authentication") + 15 * ScoreOrZero(cats, "Database")
    + 10 * ScoreOrZero(cats, "Payments") + 10 * ScoreOrZero(cats, "Security")
    + 15 * ScoreOrZero(cats, "Deployment Ready")

\* C4: calculateShipScore returns the weighted sum of the scores present,
\* rounded to the nearest integer; absent and unknown categories contribute
\* zero; reordering the category list does not change the result.
C4_WeightedSum ==
    scans = 1 =>
        /\ report.shipScore = (WeightedHundredths(categories) + 50) \div 100
        /\ calculateShipScore(Reverse(categories)) = report.shipScore
        /\ calculateShipScore(Rotate(categories)) = report.shipScore

\* an unknown category first, one known category, a sum ending in .5
C4_Witness ==
    /\ scans = 1
    /\ Len(categories) = 2
    /\ categories[1].name = "Unknown"
    /\ categories[2].name = "Security"
    /\ WeightedHundredths(categories) = 50
    /\ report.shipScore = 1

\* C5: the score of every emitted CategoryScore is an integer in 0..100.
C5_ScoreInRange ==
    \A i \in DOMAIN categories : categories[i].score \in 0..100

\* Security after deductions of 50 + 30 + 30 + 20
C5_Witness ==
    \E i \in Emitted("Security") :
        /\ categories[i].score = 0
        /\ Len(categories[i].findings) >= 4

WarnThreshold(name) ==
    CASE name = "Frontend"         -> 40
      [] name = "Backend"          -> 30
      [] name = "Authentication"   -> 40
      [] name = "Database"         -> 30
      [] name = "Deployment Ready" -> 40

ThresholdStatus(score, warn) ==
    IF score >= 70 THEN "pass" ELSE IF score >= warn THEN "warning" ELSE "critical"

ThresholdCategories ==
    {"Frontend", "Backend", "Authentication", "Database", "Deployment Ready"}

\* C6: for the five threshold categories the status is determined by the
\* score: pass from 70, warning from the category's warn threshold,
\* critical below.
C6_StatusFromScore ==
    \A i \in DOMAIN categories :
        categories[i].name \in ThresholdCategories =>
            categories[i].status =
                ThresholdStatus(categories[i].score, WarnThreshold(categories[i].name))

\* Backend exactly at its warn threshold, Frontend exactly at the pass one
C6_Witness ==
    /\ \E i \in Emitted("Backend") :
           categories[i].score = 30 /\ categories[i].status = "warning"
    /\ \E i \in Emitted("Frontend") :
           categories[i].score = 70 /\ categories[i].status = "pass"

DotenvNames == {DOTENV, DOTENV_LOCAL, DOTENV_PROD}
Committed == {n \in DotenvNames : lookup(projectPath, <<n>>).kind # "missing"}
DotenvFinding == <<"CRITICAL: ", DOT, "env", " file committed to repository">>
IsKeyFinding(f) == Head(f) = "Potential hardcoded API key found in "
MiddlewareFinding == <<"Security middleware (CORS/Helmet) detected">>

\* C7 as stated: with a committed dotenv file, Security is critical and a
\* finding names the committed file.
C7_NamesCommittedFile ==
    \A i \in Emitted("Security") :
        Committed # {} =>
            /\ categories[i].status = "critical"
            /\ \E n \in Committed, k \in DOMAIN categories[i].findings :
                   includes(categories[i].findings[k], n)

\* C7 amended: with a committed dotenv file, Security is critical whatever
\* the other signals, and the findings hold the fixed dotenv finding, which
\* names ".env" for each of the three file names.
C7_DotenvCritical ==
    \A i \in Emitted("Security") :
        Committed # {} =>
            /\ categories[i].status = "critical"
            /\ \E k \in DOMAIN categories[i].findings :
                   /\ categories[i].findings[k] = DotenvFinding
                   /\ includes(categories[i].findings[k], DOTENV)

\* .env.production committed, ignore rules in place, middleware detected,
\* numeric score in the warning band
C7_Witness ==
    \E i \in Emitted("Security") :
        /\ Committed = {DOTENV_PROD}
        /\ categories[i].score = 50
        /\ MiddlewareFinding \in Range(categories[i].findings)
        /\ categories[i].status = "critical"

\* C8: without a committed dotenv file and without a literal-key finding,
\* Security is never critical: pass from 80, warning in 50..79; a missing
\* .gitignore deducts 20, one not covering .env deducts 15, nothing else
\* is deducted.
C8_IgnoreRulesOnlyWarn ==
    \A i \in Emitted("Security") :
        (/\ Committed = {}
         /\ \A k \in DOMAIN categories[i].findings :
                ~IsKeyFinding(categories[i].findings[k]))
        => /\ categories[i].status # "critical"
           /\ categories[i].score >= 80 => categories[i].status = "pass"
           /\ categories[i].score \in 50..79 => categories[i].status = "warning"
           /\ IF lookup(projectPath, <<GITIGNORE>>).kind = "missing"
              THEN categories[i].score = 100 - 20
              ELSE categories[i].score \in {100 - 15, 100}

\* no dotenv file, no key, no .gitignore
C8_Witness ==
    \E i \in Emitted("Security") :
        /\ Committed = {}
        /\ lookup(projectPath, <<GITIGNORE>>).kind = "missing"
        /\ categories[i].findings = <<<<"No ", DOT, "gitignore", " file found">>>>
        /\ categories[i].score = 80
        /\ categories[i].status = "pass"

OnlyIndexHtml ==
    /\ Len(projectPath) = 1
    /\ projectPath[1].kind = "file"
    /\ projectPath[1].name = INDEX_HTML

\* the terms the scorers pass to searchInContent, in lower case
SearchTerms ==
    {"viewport", "responsive", "@media", "express()", "app.listen", "fastify()",
     "flask", "django", "fastapi", "/api/", "app.get", "app.post", "@app.route",
     "login", "password", "jwt", "token", "session", "cors", "helmet",
     "process.env.port"}

\* C9 as stated: only a static index.html, no manifest: Frontend 20 with
\* status warning, Backend/Authentication/Database 0 critical, Payments 0
\* warning, Deployment Ready 0 critical.
C9_StaticSiteAsStated ==
    (scans >= 1 /\ OnlyIndexHtml) =>
        /\ Yields("Frontend", 20, "warning")
        /\ Yields("Backend", 0, "critical")
        /\ Yields("Authentication", 0, "critical")
        /\ Yields("Database", 0, "critical")
        /\ Yields("Payments", 0, "warning")
        /\ Yields("Deployment Ready", 0, "critical")

\* C9 amended: only a static index.html that contains none of the searched
\* marker terms: Frontend 20 with status critical, the rest as stated.
C9_StaticSite ==
    (/\ scans >= 1
     /\ OnlyIndexHtml
     /\ contentToLowerCase(projectPath[1].text) \cap SearchTerms = {})
    => /\ Yields("Frontend", 20, "critical")
       /\ Yields("Backend", 0, "critical")
       /\ Yields("Authentication", 0, "critical")
       /\ Yields("Database", 0, "critical")
       /\ Yields("Payments", 0, "warning")
       /\ Yields("Deployment Ready", 0, "critical")

C9_Witness ==
    /\ scans >= 1
    /\ OnlyIndexHtml
    /\ projectPath[1].text = {}
    /\ Len(categories) >= 7
    /\ \E i \in Emitted("Frontend") : categories[i].score = 20

PaymentProviders ==
    {"stripe", "@stripe/stripe-js", "@paddle/paddle-js", "@lemon-squeezy/lemon-squeezy-js"}

\* the names the manifest declares in a dependency section
Declares(section) ==
    LET e == lookup(projectPath, <<PACKAGE_JSON>>)
    IN  IF e.kind = "file" /\ e.json.kind = "object" /\ e.json[section].present
        THEN e.json[section].keys ELSE {}

DeclaresProvider ==
    (Declares("dependencies") \cup Declares("devDependencies")) \cap PaymentProviders # {}

\* C10: Payments is 100 with status pass iff the manifest declares a known
\* payment provider in its direct or dev dependencies, otherwise 0 with
\* status warning.
C10_PaymentsBinary ==
    \A i \in Emitted("Payments") :
        IF DeclaresProvider
        THEN categories[i].score = 100 /\ categories[i].status = "pass"
        ELSE categories[i].score = 0 /\ categories[i].status = "warning"

\* a provider declared only as a dev dependency
C10_Witness ==
    \E i \in Emitted("Payments") :
        /\ Declares("dependencies") \cap PaymentProviders = {}
        /\ "@paddle/paddle-js" \in Declares("devDependencies")
        /\ categories[i].score = 100
        /\ categories[i].status = "pass"


--------------------------------------------------------------------------
(* Server: rate limiter (src/unnamed/part_001, lines 16-48)                *)

windowMs == 60 * 60 * 1000
maxRequests == 10

\* the filter of line 36 keeping stamps equal to the window's age
isRecent_inclusive(t, timestamp) == t - timestamp <= windowMs

\* requests.filter(timestamp => now - timestamp < windowMs)
isRecent(t, timestamp) == t - timestamp < windowMs

\* a limit that lets one more call through
overLimit_late(n) == n > maxRequests

\* recentRequests.length >= maxRequests
overLimit(n) == n >= maxRequests

\* an admission that leaves no stamp behind
pushNow_lost(recentRequests, t) == recentRequests

\* line 45: recentRequests.push(now)
pushNow(recentRequests, t) == Append(recentRequests, t)

\* rateLimit(req, res, next) on the map: the decision and the map afterwards
rateLimit(map, clientIP, t) ==
    LET m1 == IF clientIP \in DOMAIN map THEN map ELSE map @@ (clientIP :> <<>>)
        requests == m1[clientIP]
        keep(timestamp) == isRecent(t, timestamp)
        recentRequests == SelectSeq(requests, keep)
    IN  IF overLimit(Len(recentRequests))
        THEN [allowed |-> FALSE, map |-> m1]
        ELSE [allowed |-> TRUE,
              map |-> [m1 EXCEPT ![clientIP] = pushNow(recentRequests, t)]]

\* history: the last call and the unpurged record of every admission
RecordCall(c, t, decision) ==
    /\ lastCall' = [client |-> c, time |-> t, allowed |-> decision.allowed,
                    rejected |-> lastCall.rejected \/ ~decision.allowed]
    /\ admissions' =
           IF decision.allowed
           THEN (IF c \in DOMAIN admissions
                 THEN [admissions EXCEPT ![c] = Append(@, t)]
                 ELSE admissions @@ (c :> <<t>>))
           ELSE admissions

--------------------------------------------------------------------------
(* The rate limiter on its own: calls of one client as time passes         *)

MaxTicks == 3               \* clock readings after the first
TimeStep == windowMs \div 2  \* the clock advances by half a window
GuardClients == {"c1"}

InitGuard ==
    /\ rateLimiter = <<>>
    /\ now = 0
    /\ admissions = <<>>
    /\ lastCall = NoCall
    /\ pc = "idle"
    /\ req = [client |-> "none", repoUrl |-> <<>>]
    /\ tempDir = "null"
    /\ caught = <<>>
    /\ res = [status |-> 0, error |-> "none", data |-> NoReport]
    /\ disk = {}
    /\ trace = <<>>
    /\ walked = <<>>
    /\ elapsed = 0
    /\ reports = <<>>
    /\ suspended = 0
    /\ returned = <<>>
    /\ waiting = <<>>
    /\ projectPath = <<>>
    /\ stackDetection = NoStack
    /\ categories = <<>>
    /\ report = NoReport
    /\ scans = 0

\* one call of the middleware for client c at the current clock reading
guardCall(c) ==
    \E decision \in {rateLimit(rateLimiter, c, now)} :
        /\ rateLimiter' = decision.map
        /\ RecordCall(c, now, decision)
        /\ UNCHANGED <<now, pc, req, tempDir, caught, res, disk, trace, walked,
                       elapsed, reports, suspended, returned, waiting, scannerVars>>

tick ==
    /\ now < MaxTicks * TimeStep
    /\ now' = now + TimeStep
    /\ UNCHANGED <<rateLimiter, admissions, lastCall, pc, req, tempDir, caught,
                   walked, elapsed, reports, suspended, returned, waiting,
                   res, disk, trace, scannerVars>>

NextGuard == (\E c \in GuardClients : guardCall(c)) \/ tick

SpecGuard == InitGuard /\ [][NextGuard]_vars

--------------------------------------------------------------------------
(* Requests in flight together.  rateLimit is a synchronous function, so   *)
(* each call of it is one step.  An admitted request's handler runs to the *)
(* await of line 211 and parks there; nothing after that line reads or     *)
(* writes rateLimiter.  Other calls, and the clock, are let run before a   *)
(* parked handler is resumed, in every order.                              *)

MaxSuspended == 2   \* most handlers parked at once

\* lines 24-48, then lines 176-211 of the handler for an admitted request
admit(c) ==
    /\ suspended < MaxSuspended
    /\ \E decision \in {rateLimit(rateLimiter, c, now)} :
           /\ rateLimiter' = decision.map
           /\ RecordCall(c, now, decision)
           /\ suspended' = IF decision.allowed THEN suspended + 1 ELSE suspended
    /\ UNCHANGED <<now, pc, req, tempDir, caught, res, disk, trace, walked,
                   elapsed, reports, returned, waiting, scannerVars>>

\* lines 211-263: a parked handler runs to its end
resume ==
    /\ suspended > 0
    /\ suspended' = suspended - 1
    /\ UNCHANGED <<rateLimiter, now, admissions, lastCall, pc, req, tempDir,
                   caught, res, disk, trace, walked, elapsed, reports, returned, waiting,
                   scannerVars>>

NextConc == (\E c \in GuardClients : admit(c)) \/ resume \/ tick

SpecConc == InitGuard /\ [][NextConc]_vars

\* the admissions of the caller less than one hour before the call, the
\* call itself not counted
EarlierInWindow(call) ==
    LET mine == IF call.client \in DOMAIN admissions
                THEN admissions[call.client] ELSE <<>>
        inside == {i \in DOMAIN mine : mine[i] + 3600000 > call.time}
    IN  Cardinality(inside) - (IF call.allowed THEN 1 ELSE 0)

\* C3: a call is admitted exactly when fewer than the quota of that
\* client's admissions lie less than one window back (the quota-plus-first
\* call inside a window is rejected, an admission exactly one window old no
\* longer counts), and no window-length interval holds more than the quota
\* of admissions.
C3_SlidingWindow ==
    /\ lastCall.client # "none" =>
           (lastCall.allowed <=> EarlierInWindow(lastCall) < 10)
    /\ \A c \in DOMAIN admissions : \A i \in DOMAIN admissions[c] :
           Cardinality({j \in DOMAIN admissions[c] :
                           /\ admissions[c][j] >= admissions[c][i]
                           /\ admissions[c][j] < admissions[c][i] + 3600000})
               <= 10

\* ten admissions, a rejected call, then the call one window after the
\* first admission is admitted
C3_Witness ==
    /\ lastCall.client = "c1"
    /\ lastCall.rejected
    /\ lastCall.allowed
    /\ Len(admissions["c1"]) = 11
    /\ admissions["c1"][1] = 0
    /\ admissions["c1"][10] = 0
    /\ lastCall.time = 3600000


--------------------------------------------------------------------------
(* Server: reference validation (lines 50-54)                              *)

SCHEME == "https://"
HOST == "github.com"
SLASH == "/"

\* tokens of the class [a-zA-Z0-9_.-]
SegmentChars == {"a", "Z", "7", "_", ".", "-"}

\* the pattern without its closing anchor: a match may stop before the end
matchEnds_unanchored(url, i, at) == at \in {"name", "end"}

\* the closing \/?$ : a match ends only at the end of the input, after the
\* name or after the one optional slash
matchEnds(url, i, at) == at \in {"name", "end"} /\ i > Len(url)

\* /^https:\/\/github\.com\/[a-zA-Z0-9_.-]+\/[a-zA-Z0-9_.-]+\/?$/ run as an
\* automaton over the tokens from position i: at is the part of the pattern
\* being matched
RECURSIVE githubRegex(_, _, _)
githubRegex(url, i, at) ==
    IF matchEnds(url, i, at) THEN TRUE
    ELSE IF i > Len(url) THEN FALSE
    ELSE LET ch == url[i]
         IN  CASE at = "scheme" -> ch = SCHEME /\ githubRegex(url, i + 1, "host")
               [] at = "host"   -> ch = HOST /\ githubRegex(url, i + 1, "slash")
               [] at = "slash"  -> ch = SLASH /\ githubRegex(url, i + 1, "owner1")
               [] at = "owner1" -> ch \in SegmentChars /\ githubRegex(url, i + 1, "owner")
               [] at = "owner"  -> \/ ch \in SegmentChars /\ githubRegex(url, i + 1, "owner")
                                   \/ ch = SLASH /\ githubRegex(url, i + 1, "name1")
               [] at = "name1"  -> ch \in SegmentChars /\ githubRegex(url, i + 1, "name")
               [] at = "name"   -> \/ ch \in SegmentChars /\ githubRegex(url, i + 1, "name")
                                   \/ ch = SLASH /\ githubRegex(url, i + 1, "end")
               [] at = "end"    -> FALSE

isValidGitHubUrl(url) == githubRegex(url, 1, "scheme")

--------------------------------------------------------------------------
(* Server: clone, size walk, cleanup, error mapping                        *)

sizeLimit == 100 * 1024 * 1024

\* a directory counted by its own stat only, without what it contains
entrySize_flat(file, sub) == IF file.kind = "dir" THEN 0 ELSE file.size

\* lines 77-81: what one entry adds to the running size of its directory:
\* the size getDirSize returned for a directory, stat.size for a file
entrySize(file, sub) == IF file.kind = "dir" THEN sub.size ELSE file.size

\* getDirSize: the running size of one directory listing, begun at 0 for
\* every directory (line 73); thrown once a running size exceeds the limit;
\* visited lists the entries stat'ed, in order, each with the bytes its stat
\* added to a running size (none for a directory itself)
RECURSIVE getDirSize(_, _)
getDirSize(files, size) ==
    IF files = <<>> THEN [size |-> size, thrown |-> FALSE, visited |-> <<>>]
    ELSE LET file == Head(files)
             counted(sub) ==
                 LET seen == <<[name |-> file.name,
                                size |-> IF file.kind = "dir" THEN 0 ELSE file.size]>>
                             \o sub.visited
                     grown == size + entrySize(file, sub)
                 IN  IF sub.thrown
                     THEN [size |-> sub.size, thrown |-> TRUE, visited |-> seen]
                     ELSE IF grown > sizeLimit
                     THEN [size |-> grown, thrown |-> TRUE, visited |-> seen]
                     ELSE LET rest(r) == [r EXCEPT !.visited = seen \o @]
                          IN  Strict(getDirSize(Tail(files), grown), rest)
         IN  Strict(IF file.kind = "dir" THEN getDirSize(file.children, 0)
                    ELSE [size |-> file.size, thrown |-> FALSE, visited |-> <<>>],
                    counted)

\* what the remote end does to a git clone: the tree it delivers, or a
\* failure that may leave a partial directory behind.  The workspace path
\* comes from 16 random bytes and is taken never to name an existing
\* directory.
Site == <<File(INDEX_HTML, {"Viewport"}, <<>>, NoJson)>>
NullManifestRepo == <<File(PACKAGE_JSON, {"null"}, <<>>, NullJson)>>
BigRepo ==
    <<Dir(<<"assets">>, <<SizedFile(<<"a", DOT, "bin">>, {}, <<>>, NoJson, 60 * 1024 * 1024)>>),
      SizedFile(<<"b", DOT, "bin">>, {}, <<>>, NoJson, 60 * 1024 * 1024)>>

KeyRepo == <<File(<<"server", DOT, "js">>, ServerText, <<SecretKey>>, NoJson)>>

Remotes ==
    {[kind |-> "ok", tree |-> t, partial |-> TRUE] :
         t \in {Site, NullManifestRepo, BigRepo, KeyRepo}}
    \cup {[kind |-> k, tree |-> <<>>, partial |-> b] :
             k \in {"unreachable", "timeout"}, b \in BOOLEAN}

\* cloneRepository(repoUrl, tempDir): the error it throws (<<>> when it
\* returns true) and whether tempDir exists afterwards
cloneRepository(remote) ==
    LET inner ==
            IF remote.kind = "unreachable" THEN <<"Command failed: git clone">>
            ELSE IF remote.kind = "timeout" THEN <<"spawnSync /bin/sh ", "ETIMEDOUT">>
            ELSE IF getDirSize(remote.tree, 0).thrown THEN <<"Repository ", "too large">>
            ELSE <<>>
    IN  [error |-> IF inner = <<>> THEN <<>>
                   ELSE <<"Failed to clone", " repository: ">> \o inner,
         created |-> remote.kind = "ok" \/ remote.partial,
         tree |-> remote.tree,
         walked |-> IF remote.kind = "ok" THEN getDirSize(remote.tree, 0).visited
                    ELSE <<>>]

\* lines 242-256: the response for a caught error
errorResponse(message) ==
    IF includes(message, <<"Failed to clone">>)
    THEN [status |-> 400, data |-> NoReport,
          error |-> "Could not access repository. It may be private, deleted, or the URL is incorrect."]
    ELSE IF includes(message, <<"too large">>)
    THEN [status |-> 400, data |-> NoReport,
          error |-> "Repository is too large (>100MB). Please try a smaller repository."]
    ELSE IF includes(message, <<"timeout">>)
    THEN [status |-> 408, data |-> NoReport,
          error |-> "Scan took too long to complete. Please try again or choose a smaller repository."]
    ELSE [status |-> 500, data |-> NoReport, error |-> "Internal server error"]

\* cleanup placed at the end of the try block: skipped once an error is caught
cleanupWanted_onSuccess(dir, error) == dir # "null" /\ error = <<>>

\* finally { if (tempDir) cleanupTempDir(tempDir) }
cleanupWanted(dir, error) == dir # "null"

--------------------------------------------------------------------------
(* Server: POST /api/scan.  Node runs one request handler to completion    *)
(* (execSync blocks, scan() has no await inside and its promise is settled *)
(* before Promise.race is built), so one request is in progress at a time. *)

Clients == {"c1"}
ScanIds == {"shovel-scan-1", "shovel-scan-2"}

MaxUrlLen == 4   \* most tokens after https://github.com/ in a request

UrlChars == {"a", SLASH, ";"}

RECURSIVE Tails(_)
Tails(n) ==
    IF n = 0 THEN {<<>>}
    ELSE LET shorter == Tails(n - 1)
         IN  shorter \cup {Append(t, ch) : t \in {u \in shorter : Len(u) = n - 1},
                                          ch \in UrlChars}

\* the repoUrl values of requests: every tail after the right prefix, a
\* well-formed tail after wrong prefixes, and a missing repoUrl
RepoUrls ==
    {<<SCHEME, HOST, SLASH>> \o t : t \in Tails(MaxUrlLen)}
    \cup {pre \o <<"a", SLASH, "a">> :
             pre \in {<<"http://", HOST, SLASH>>, <<SCHEME, "example.com", SLASH>>,
                      <<SCHEME, HOST, ".", "a", SLASH>>, <<" ", SCHEME, HOST, SLASH>>}}
    \cup {<<SCHEME, HOST, SLASH, "Z", "7", SLASH, "_", ".", "-", SLASH>>,
          <<SCHEME, HOST, SLASH, "a", SLASH, "a", "\"">>}
    \cup {<<>>}

Init ==
    /\ rateLimiter = <<>>
    /\ now = 0
    /\ admissions = <<>>
    /\ lastCall = NoCall
    /\ pc = "idle"
    /\ req = [client |-> "none", repoUrl |-> <<>>]
    /\ tempDir = "null"
    /\ caught = <<>>
    /\ res = [status |-> 0, error |-> "none", data |-> NoReport]
    /\ disk = {}
    /\ trace = <<>>
    /\ walked = <<>>
    /\ elapsed = 0
    /\ reports = <<>>
    /\ suspended = 0
    /\ returned = <<>>
    /\ waiting = <<>>
    /\ projectPath = <<>>
    /\ stackDetection = NoStack
    /\ categories = <<>>
    /\ report = NoReport
    /\ scans = 0

\* a request arrives: the rateLimit middleware answers 429 or calls next()
receive(c, url) ==
    /\ pc = "idle"
    /\ \E decision \in {rateLimit(rateLimiter, c, now)} :
           /\ rateLimiter' = decision.map
           /\ RecordCall(c, now, decision)
           /\ IF decision.allowed
              THEN /\ pc' = "validate"
                   /\ res' = [status |-> 0, error |-> "none", data |-> NoReport]
              ELSE /\ pc' = "done"
                   /\ res' = [status |-> 429, data |-> NoReport,
                              error |-> "Rate limit exceeded. Try again later."]
    /\ req' = [client |-> c, repoUrl |-> url]
    /\ tempDir' = "null"
    /\ caught' = <<>>
    /\ trace' = <<"rateLimit">>
    /\ walked' = <<>>
    /\ elapsed' = 0
    /\ UNCHANGED <<now, disk, reports, suspended, returned, waiting, scannerVars>>

\* lines 181-198: the input checks and the workspace path
validate ==
    /\ pc = "validate"
    /\ trace' = Append(trace, "validate")
    /\ IF req.repoUrl = <<>>
       THEN /\ res' = [status |-> 400, data |-> NoReport,
                       error |-> "Repository URL is required"]
            /\ pc' = "finally"
            /\ UNCHANGED tempDir
       ELSE IF ~isValidGitHubUrl(req.repoUrl)
       THEN /\ res' = [status |-> 400, data |-> NoReport,
                       error |-> "Invalid GitHub URL format"]
            /\ pc' = "finally"
            /\ UNCHANGED tempDir
       ELSE /\ \E scanId \in ScanIds \ disk : tempDir' = scanId
            /\ pc' = "clone"
            /\ UNCHANGED res
    /\ UNCHANGED <<rateLimiter, now, admissions, lastCall, walked, elapsed, reports, suspended, returned, waiting,
                   req, caught, disk, scannerVars>>

\* line 201: cloneRepository(repoUrl, tempDir)
clone(remote) ==
    /\ pc = "clone"
    /\ trace' = Append(trace, "clone")
    /\ \E result \in {cloneRepository(remote)} :
           /\ disk' = IF result.created THEN disk \cup {tempDir} ELSE disk
           /\ projectPath' = result.tree
           /\ caught' = result.error
           /\ walked' = result.walked
           /\ pc' = IF result.error = <<>> THEN "scan" ELSE "catch"
    /\ UNCHANGED <<rateLimiter, now, admissions, lastCall, elapsed, reports, suspended, returned, waiting,
                   req, tempDir, res,
                   stackDetection, categories, report, scans>>

\* line 208: the delay of the timer behind timeoutPromise
scanTimeout == 60000

\* lines 206-209: scan() is an async function whose body holds no await, so
\* the call at line 206 runs the whole pipeline before it returns and
\* scanPromise is settled ms milliseconds after the call began; the timer of
\* line 208 is created only then, and fires scanTimeout later
scanSettledAt(ms) == ms
timerFiresAt(ms) == ms + scanTimeout

\* line 211: Promise.race settles with whichever promise settles first
raceWinner(ms) == IF timerFiresAt(ms) < scanSettledAt(ms) THEN "timeout" ELSE "scan"

\* the durations a scan() call is let run for: a quick one, and one that is
\* still running a second after the deadline
ScanDurations == {1500, 61000}

\* lines 204-211: a new ProjectScanner on tempDir, scan(), the race with the
\* 60 s timer, and the await that takes the race's outcome
runScan(ms) ==
    /\ pc = "scan"
    /\ trace' = Append(trace, "scan")
    /\ elapsed' = ms
    /\ \E result \in {scanResult(projectPath, <<>>)} :
           /\ report' = result
           /\ scans' = 1
           /\ IF raceWinner(ms) = "timeout"
              THEN /\ stackDetection' = result.stackDetection
                   /\ categories' = result.categories
                   /\ caught' = <<"Scan ", "timeout">>
                   /\ pc' = "catch"
              ELSE IF result.error = <<>>
              THEN /\ stackDetection' = result.stackDetection
                   /\ categories' = result.categories
                   /\ pc' = "save"
                   /\ UNCHANGED caught
              ELSE /\ stackDetection' = NoStack
                   /\ categories' = <<>>
                   /\ caught' = result.error
                   /\ pc' = "catch"
    /\ UNCHANGED <<rateLimiter, now, admissions, lastCall, walked, reports, suspended, returned, waiting,
                   req, tempDir, res, disk,
                   projectPath>>

\* the record of the reports sent so far: the first report sent for each
\* checkout content, and the workspace it was made in
firstReport(sent, tree, dir, data) ==
    IF \E i \in DOMAIN sent : sent[i].tree = tree THEN sent
    ELSE Append(sent, [tree |-> tree, dir |-> dir, data |-> data])

\* lines 216-237: saveScanResult, which may throw, then the report goes out
saveAndRespond(dbOk) ==
    /\ pc = "save"
    /\ trace' = Append(trace, IF dbOk THEN "respond" ELSE "saveThrew")
    /\ IF dbOk
       THEN /\ res' = [status |-> 200, error |-> "none", data |-> report]
            /\ reports' = firstReport(reports, projectPath, tempDir, report)
            /\ pc' = "finally"
            /\ UNCHANGED caught
       ELSE /\ caught' = <<"SQLITE_ERROR">>
            /\ pc' = "catch"
            /\ UNCHANGED <<res, reports, suspended, returned, waiting>>
    /\ UNCHANGED <<rateLimiter, now, admissions, lastCall, walked, elapsed,
                   suspended, returned, waiting, req, tempDir, disk, scannerVars>>

\* lines 239-256
catch ==
    /\ pc = "catch"
    /\ trace' = Append(trace, "catch")
    /\ res' = errorResponse(caught)
    /\ pc' = "finally"
    /\ UNCHANGED <<rateLimiter, now, admissions, lastCall, walked, elapsed, reports, suspended, returned, waiting,
                   req, tempDir, caught, disk,
                   scannerVars>>

\* lines 258-263 with cleanupTempDir (lines 101-110): rmSync may throw, which
\* is logged and swallowed
finally(rmOk) ==
    /\ pc = "finally"
    /\ IF cleanupWanted(tempDir, caught) /\ tempDir \in disk
       THEN IF rmOk
            THEN /\ disk' = disk \ {tempDir}
                 /\ trace' = Append(trace, "removed")
            ELSE /\ UNCHANGED disk
                 /\ trace' = Append(trace, "rmThrew")
       ELSE /\ rmOk
            /\ UNCHANGED disk
            /\ trace' = Append(trace, "finally")
    /\ pc' = "done"
    /\ UNCHANGED <<rateLimiter, now, admissions, lastCall, walked, elapsed, reports, suspended, returned, waiting,
                   req, tempDir, caught, res,
                   scannerVars>>

\* the response is out and the handler has returned: its locals and its
\* scanner are dropped, the rate limiter map and the disk stay
settle ==
    /\ pc = "done"
    /\ pc' = "idle"
    /\ req' = [client |-> "none", repoUrl |-> <<>>]
    /\ tempDir' = "null"
    /\ caught' = <<>>
    /\ res' = [status |-> 0, error |-> "none", data |-> NoReport]
    /\ trace' = <<>>
    /\ walked' = <<>>
    /\ elapsed' = 0
    /\ lastCall' = NoCall
    /\ projectPath' = <<>>
    /\ stackDetection' = NoStack
    /\ categories' = <<>>
    /\ report' = NoReport
    /\ scans' = 0
    /\ UNCHANGED <<rateLimiter, now, admissions, disk, reports, suspended, returned, waiting>>

Next ==
    \/ \E c \in Clients, url \in RepoUrls : receive(c, url)
    \/ validate
    \/ \E remote \in Remotes : clone(remote)
    \/ \E ms \in ScanDurations : runScan(ms)
    \/ \E dbOk \in BOOLEAN : saveAndRespond(dbOk)
    \/ catch
    \/ \E rmOk \in BOOLEAN : finally(rmOk)
    \/ settle

Spec == Init /\ [][Next]_vars


--------------------------------------------------------------------------
(* Properties of the server                                                *)

\* the allow-list shape: https://github.com/<owner>/<name> with an optional
\* trailing slash, owner and name non-empty and made of letters, digits,
\* '_', '.', '-'
AllowedChars == {"a", "Z"} \cup {"7"} \cup {"_", ".", "-"}

MatchesAllowList(url) ==
    \E i \in 4..Len(url), j \in 6..Len(url) :
        /\ SubSeq(url, 1, 3) = <<"https://", "github.com", "/">>
        /\ i + 2 <= j
        /\ \A k \in 4..i : url[k] \in AllowedChars
        /\ url[i + 1] = "/"
        /\ \A k \in (i + 2)..j : url[k] \in AllowedChars
        /\ \/ j = Len(url)
           \/ j + 1 = Len(url) /\ url[j + 1] = "/"

InvalidReference(r) ==
    /\ r.status = 400
    /\ r.error \in {"Repository URL is required", "Invalid GitHub URL format"}

\* C1: an admitted request whose reference does not match the allow-list
\* shape is answered InvalidReference without a workspace path being
\* allocated or the clone being run; a reference that matches is never
\* answered InvalidReference.
C1_AllowList ==
    /\ (Len(trace) >= 2 /\ ~MatchesAllowList(req.repoUrl)) =>
           /\ InvalidReference(res)
           /\ tempDir = "null"
           /\ "clone" \notin Range(trace)
    /\ MatchesAllowList(req.repoUrl) => ~InvalidReference(res)

\* the wrong-host reference of scenario D, answered and finished
C1_Witness ==
    /\ pc = "done"
    /\ req.repoUrl = <<"https://", "example.com", "/", "a", "/", "a">>
    /\ res.status = 400
    /\ res.error = "Invalid GitHub URL format"
    /\ trace = <<"rateLimit", "validate", "finally">>
    /\ disk = {}

\* C2: once the handler of a request that was given a workspace path has
\* finished, that directory does not exist, on every exit path, unless the
\* deletion itself threw.
C2_WorkspaceReclaimed ==
    (pc = "done" /\ tempDir # "null" /\ "rmThrew" \notin Range(trace)) =>
        tempDir \notin disk

\* a clone that timed out and left a partial directory, removed on the way out
C2_Witness ==
    /\ pc = "done"
    /\ tempDir # "null"
    /\ trace = <<"rateLimit", "validate", "clone", "catch", "removed">>
    /\ includes(caught, <<"ETIMEDOUT">>)
    /\ tempDir \notin disk

--------------------------------------------------------------------------
(* Properties of the fetch outcome                                         *)

\* the bytes of all files of a tree, every nesting level included
RECURSIVE TotalBytes(_)
TotalBytes(entries) ==
    IF entries = <<>> THEN 0
    ELSE (IF Head(entries).kind = "dir" THEN TotalBytes(Head(entries).children)
          ELSE Head(entries).size)
         + TotalBytes(Tail(entries))

\* the responses a caller tells the failure kinds apart by
Unreachable(r) ==
    /\ r.status = 400
    /\ r.error = "Could not access repository. It may be private, deleted, or the URL is incorrect."

TooLarge(r) ==
    /\ r.status = 400
    /\ r.error = "Repository is too large (>100MB). Please try a smaller repository."

Timeout(r) ==
    /\ r.status = 408
    /\ r.error = "Scan took too long to complete. Please try again or choose a smaller repository."

\* the request being handled cloned a tree of more than 100MB
OversizeCloned ==
    /\ "clone" \in Range(trace)
    /\ TotalBytes(projectPath) > 100 * 1024 * 1024

\* the clone of the request being handled ran into its 30 s ceiling
CloneTimedOut ==
    /\ "clone" \in Range(trace)
    /\ includes(caught, <<"ETIMEDOUT">>)

\* C11: a request whose clone exceeds the 100MB ceiling is answered with the
\* TooLarge outcome, not with the Unreachable one.
C11_TooLargeReported ==
    (pc = "done" /\ OversizeCloned) => (TooLarge(res) /\ ~Unreachable(res))

\* C11, what the handler does: the oversize clone fails, its workspace is
\* removed, and the answer is the Unreachable outcome
C11_OversizeAnsweredUnreachable ==
    (pc = "done" /\ OversizeCloned) =>
        /\ Unreachable(res)
        /\ "scan" \notin Range(trace)

C11_Witness ==
    /\ pc = "done"
    /\ OversizeCloned
    /\ includes(caught, <<"too large">>)
    /\ Unreachable(res)
    /\ tempDir \notin disk

\* C12: a request whose clone exceeds its 30 s ceiling is answered with the
\* Timeout outcome, not with Unreachable or the generic internal error.
C12_TimeoutReported ==
    (pc = "done" /\ CloneTimedOut) => Timeout(res)

\* C12, what the handler does: the timed-out clone is answered Unreachable
C12_CloneTimeoutAnsweredUnreachable ==
    (pc = "done" /\ CloneTimedOut) => Unreachable(res)

C12_Witness ==
    /\ pc = "done"
    /\ CloneTimedOut
    /\ Unreachable(res)


\* ---------------------------------------------------------------------
\* C13  the 60-second deadline of a scan

SlowScan == "scan" \in Range(trace) /\ elapsed > 60000

\* C13: a scan whose pipeline has not produced its report when the 60-second
\* deadline elapses is answered with the timeout error.
C13_DeadlineEnforced == (pc = "done" /\ SlowScan) => Timeout(res)

\* What the handler does: the timer is created after scan() has returned, so
\* a scan that ran past the deadline is never answered with the timeout
\* error; the request ends as it would have for a quick scan, and the
\* workspace is still removed or its removal attempted.
C13_SlowScanNeverTimesOut ==
    (pc = "done" /\ SlowScan) =>
        /\ ~Timeout(res)
        /\ res.status \in {200, 500}
        /\ (tempDir \notin disk \/ "rmThrew" \in Range(trace))

C13_Witness == pc = "done" /\ SlowScan /\ res.status = 200 /\ res.data = report


\* ---------------------------------------------------------------------
\* C14  scan() on any content of a present package manifest

ManifestPresent == fileExists(projectPath, <<PACKAGE_JSON>>)
ManifestJson == lookup(projectPath, <<PACKAGE_JSON>>).json
CompleteReport ==
    /\ report.error = <<>>
    /\ Len(report.categories) = 7
    /\ report.shipScore \in 0..100

\* C14: whatever a present package manifest contains, scan() does not fail
\* and returns a complete report.
C14_ManifestNeverFails == (scans = 1 /\ ManifestPresent) => CompleteReport

\* What scan() does: it returns a complete report for every manifest content
\* except the JSON value null, for which it fails with 'Scan failed: ...'.
C14_OnlyNullManifestFails ==
    (scans = 1 /\ ManifestPresent) =>
        IF ManifestJson.kind = "null"
        THEN report = ScanFailed
        ELSE CompleteReport

C14_Witness ==
    scans = 1 /\ ManifestPresent /\ ManifestJson.kind = "null" /\ report = ScanFailed

C14_OtherShapesWitness ==
    scans = 1 /\ ManifestPresent /\ ManifestJson.kind \in {"invalid", "scalar"}
    /\ CompleteReport


\* ---------------------------------------------------------------------
\* C15  two scans of the same content give the same report

Reported == pc \in {"finally", "done"} /\ res.status = 200

\* C15: a report sent for a checkout equals, field for field, the first
\* report sent for the same content, whatever workspace either was made in.
C15_SameContentSameReport ==
    Reported =>
        \A r \in Range(reports) :
            r.tree = projectPath =>
                /\ res.data.shipScore = r.data.shipScore
                /\ res.data.stackDetection = r.data.stackDetection
                /\ res.data.categories = r.data.categories

\* a second report for a checkout with a key in server.js, made in another
\* workspace than the first, with a finding that names the file
C15_Witness ==
    /\ Reported
    /\ projectPath = KeyRepo
    /\ \E r \in Range(reports) : r.tree = projectPath /\ r.dir # tempDir
    /\ \E i \in DOMAIN res.data.categories :
           \E f \in Range(res.data.categories[i].findings) :
               includes(f, <<"Potential hardcoded API key found in ">>)


--------------------------------------------------------------------------
(* The size walk of cloneRepository on its own: a checkout is drawn from   *)
(* a set of trees and cloneRepository is applied to it.                    *)

MaxEntries == 3     \* most entries in the root of a drawn checkout
MaxChildren == 2    \* most files in a directory of a drawn checkout

MB == 1024 * 1024

\* stat.size of the files of the drawn checkouts: two sizes that reach the
\* limit exactly when added
WalkSizes == {40 * MB, 60 * MB}

SeqsUpTo(S, lo, hi) == UNION {[1..n -> S] : n \in lo..hi}

\* the entries of a listing named by their position
RECURSIVE Numbered(_)
Numbered(entries) ==
    [i \in DOMAIN entries |->
        [entries[i] EXCEPT !.name = <<ToString(i)>>, !.children = Numbered(@)]]

WalkFiles == {SizedFile(<<"f">>, {}, <<>>, NoJson, n) : n \in WalkSizes}
WalkDirs == {Dir(<<"d">>, c) : c \in SeqsUpTo(WalkFiles, 1, MaxChildren)}
WalkTrees == {Numbered(t) : t \in SeqsUpTo(WalkFiles \cup WalkDirs, 0, MaxEntries)}

InitWalk ==
    /\ ServerIdle
    /\ projectPath \in WalkTrees
    /\ stackDetection = NoStack
    /\ categories = <<>>
    /\ report = NoReport
    /\ scans = 0

\* lines 57-98 on a remote that delivers the drawn checkout
cloneWalk ==
    /\ trace = <<>>
    /\ trace' = <<"clone">>
    /\ \E result \in {cloneRepository([kind |-> "ok", tree |-> projectPath,
                                      partial |-> TRUE])} :
           /\ caught' = result.error
           /\ walked' = result.walked
    /\ UNCHANGED <<rateLimiter, now, admissions, lastCall, pc, req, tempDir, res,
                   disk, elapsed, reports, suspended, returned, waiting, scannerVars>>

NextWalk == cloneWalk

SpecWalk == InitWalk /\ [][NextWalk]_vars

\* ---------------------------------------------------------------------
\* C16  no oversize tree leaves cloneRepository

CloneReturned == "clone" \in Range(trace) /\ caught = <<>>

\* C16: whenever cloneRepository has returned without an error, the sizes of
\* all files of the checkout, at every depth, add up to at most 100MB.
C16_ReturnedTreeWithinCeiling ==
    CloneReturned => TotalBytes(projectPath) <= 100 * 1024 * 1024

\* a checkout of exactly 100MB, part of it inside a directory, is returned
C16_Witness ==
    /\ CloneReturned
    /\ TotalBytes(projectPath) = 100 * 1024 * 1024
    /\ \E i \in DOMAIN projectPath :
           projectPath[i].kind = "dir" /\ TotalBytes(projectPath[i].children) > 0


\* ---------------------------------------------------------------------
\* C20  where the size walk stops

\* the bytes of the first k entries the walk looked at
RECURSIVE BytesSeen(_, _)
BytesSeen(seen, k) == IF k = 0 THEN 0 ELSE seen[k].size + BytesSeen(seen, k - 1)

PastCeiling(k) == BytesSeen(walked, k) > 100 * 1024 * 1024

\* C20: the first entry after which the bytes of all files looked at so far,
\* in whatever directory, exceed 100MB is the last entry the walk looks at.
C20_WalkStopsAtCeiling ==
    "clone" \in Range(trace) =>
        \A k \in 1..Len(walked) : PastCeiling(k) => k = Len(walked)

\* What the walk does: a checkout above 100MB always fails the walk, but
\* the walk stops only where the running size of the directory being listed
\* exceeds 100MB, and that size starts at 0 in every directory.
C20_OversizeWalkFails ==
    "clone" \in Range(trace) =>
        /\ (TotalBytes(projectPath) > 100 * 1024 * 1024
               <=> includes(caught, <<"too large">>))
        /\ (caught = <<>> => BytesSeen(walked, Len(walked)) = TotalBytes(projectPath))

\* the walk went on to a further file after the bytes seen had passed 100MB
C20_Witness ==
    /\ "clone" \in Range(trace)
    /\ includes(caught, <<"too large">>)
    /\ \E k \in 1..(Len(walked) - 1) : PastCeiling(k) /\ walked[k + 1].size > 0


\* ---------------------------------------------------------------------
\* C17  the per-client log under requests in flight together

AdmittedStamps(c) == IF c \in DOMAIN admissions THEN admissions[c] ELSE <<>>

\* the stored log holds, once each and in order, the admissions from some
\* point on, and every admission before that point has left the window
LogMatchesAdmissions(c) ==
    \E k \in 0..Len(AdmittedStamps(c)) :
        /\ rateLimiter[c] = SubSeq(AdmittedStamps(c), k + 1, Len(AdmittedStamps(c)))
        /\ \A i \in 1..k : now - AdmittedStamps(c)[i] >= 3600000

\* no admission came as the eleventh inside one hour
QuotaKept(c) ==
    \A i \in 1..Len(AdmittedStamps(c)) :
        Cardinality({j \in 1..i :
            AdmittedStamps(c)[i] - AdmittedStamps(c)[j] < 3600000}) <= 10

\* C17: however calls of one client fall between the parking and resuming of
\* other handlers, the client's log records every admission still inside the
\* window exactly once, and at most 10 admissions fall inside any window.
C17_LogAtomic ==
    \A c \in DOMAIN rateLimiter : LogMatchesAdmissions(c) /\ QuotaKept(c)

\* a call admitted while two handlers are parked, after a purge and after
\* a rejection
C17_Witness ==
    /\ suspended = 2
    /\ lastCall.allowed /\ lastCall.rejected
    /\ "c1" \in DOMAIN rateLimiter
    /\ Len(rateLimiter["c1"]) < Len(AdmittedStamps("c1"))


\* ---------------------------------------------------------------------
\* C18  the range of shipScore

\* C18: the shipScore of the report of a first scan() is an integer from 0
\* to 100.
C18_ShipScoreInRange ==
    (scans = 1 /\ report.error = <<>>) => report.shipScore \in 0..100

\* a report of shipScore 0: Security is the only category above 0 before
\* its floor, and its deductions exceed 100
C18_Witness ==
    /\ scans = 1 /\ report.error = <<>>
    /\ report.shipScore = 0
    /\ \E i \in Emitted("Security") : Len(categories[i].findings) >= 4

\* ---------------------------------------------------------------------
\* C19  key literals in source files

SourceExtensions == {Ext("js"), Ext("ts"), Ext("jsx"), Ext("tsx"), Ext("py")}

\* the scanned source files that hold a literal matching a key pattern
KeyFiles ==
    {f \in Range(getAllFiles(projectPath, SourceExtensions)) :
        /\ ~includes(pathString(f), ENV_EXAMPLE)
        /\ \E k \in Range(readFile(projectPath, f).keys) :
               k.pats \cap Range(apiKeyPatterns) # {}}

Named(i, f) ==
    \E k \in DOMAIN categories[i].findings :
        categories[i].findings[k] =
            <<"Potential hardcoded API key found in ">> \o pathString(f)

\* C19: every scanned source file holding a match of a key pattern costs
\* Security points and is named in a Security finding.
C19_EveryKeyFileFlagged ==
    \A i \in Emitted("Security") : \A f \in KeyFiles : Named(i, f)

\* What the scorer does: the first scanned file that holds a match is named;
\* a later one is tested from where the previous match of the same pattern
\* object ended, and may go unnamed.
C19_FirstKeyFileFlagged ==
    \A i \in Emitted("Security") :
        LET files == getAllFiles(projectPath, SourceExtensions)
            firsts == {n \in DOMAIN files :
                          /\ files[n] \in KeyFiles
                          /\ \A m \in 1..(n - 1) : files[m] \notin KeyFiles}
        IN  /\ \A n \in firsts : Named(i, files[n])
            /\ KeyFiles # {} => categories[i].status = "critical"

\* lib.js and server.js both hold a key; only lib.js is named
C19_Witness ==
    \E i \in Emitted("Security") :
        /\ Named(i, <<<<"lib", DOT, "js">>>>)
        /\ <<<<"server", DOT, "js">>>> \in KeyFiles
        /\ ~Named(i, <<<<"server", DOT, "js">>>>)


--------------------------------------------------------------------------
(* The two search helpers of the scanner on their own: a workspace is      *)
(* drawn and searchInContent or searchInFiles is applied to it once.       *)

MaxPad == 51    \* most files listed before the file that holds the term

\* n source files without the term, named so that they list in order
Pads(n) == [i \in 1..n |-> File(<<"a", ToString(100 + i), DOT, "js">>, {}, <<>>, NoJson)]

\* workspaces for searchInContent: padding, then a page with or without the
\* term in either case, then possibly one more file with the term
ContentTrees ==
    {Pads(n) \o <<File(<<"b", DOT, "html">>, text, <<>>, NoJson)>> \o last :
        n \in 0..MaxPad,
        text \in {{}, {"Login"}, {"login"}},
        last \in {<<>>, <<File(<<"c", DOT, "py">>, {"login", "PASSWORD"}, <<>>, NoJson)>>}}

AppliedTerms == {"login", "Login", "password"}

\* workspaces for searchInFiles: source files at the root and in src, next
\* to files inside .git, node_modules and src/.cache, a hidden file, and a
\* directory whose name ends like a source file
JsFile(name) == File(<<name, DOT, "js">>, {}, <<>>, NoJson)

FindTrees ==
    {git \o hidden \o mods \o src \o server \o odd :
        git \in {<<>>, <<Dir(<<DOT, "git">>, <<JsFile("hook")>>)>>},
        hidden \in {<<>>, <<File(<<DOT, "eslintrc", DOT, "js">>, {}, <<>>, NoJson)>>},
        mods \in {<<>>, <<Dir(NODE_MODULES, <<Dir(<<"express">>, <<JsFile("server")>>)>>)>>},
        src \in {<<>>,
                 <<Dir(<<"src">>, <<JsFile("app")>>)>>,
                 <<Dir(<<"src">>, <<Dir(<<DOT, "cache">>, <<JsFile("app")>>),
                                   JsFile("app"),
                                   Dir(NODE_MODULES, <<JsFile("app")>>),
                                   File(<<"server", DOT, "ts">>, {}, <<>>, NoJson)>>)>>},
        server \in {<<>>, <<JsFile("server")>>, <<File(<<"server", DOT, "md">>, {}, <<>>, NoJson)>>},
        odd \in {<<>>, <<Dir(<<"vendor", DOT, "js">>, <<JsFile("server")>>)>>}}

FindExtensions == {{Ext("js")}, {Ext("js"), Ext("ts")}}
FindNamePatterns == {{}, {<<"server">>}, {<<"app">>, <<"server">>}}

SearchTrees == ContentTrees \cup FindTrees

InitSearch ==
    /\ ServerIdle
    /\ projectPath \in SearchTrees
    /\ stackDetection = NoStack
    /\ categories = <<>>
    /\ report = NoReport
    /\ scans = 0

\* searchInContent(term) on the drawn workspace
applySearchInContent(term) ==
    /\ returned = <<>>
    /\ \E result \in {contentSearch(projectPath, term)} :
           returned' = [op |-> "searchInContent", term |-> term,
                        found |-> result.found, read |-> result.read]
    /\ UNCHANGED <<rateLimiter, now, admissions, lastCall, pc, req, tempDir, caught,
                   res, disk, trace, walked, elapsed, reports, suspended, waiting, scannerVars>>

\* searchInFiles(extensions, namePatterns) on the drawn workspace
applySearchInFiles(extensions, namePatterns) ==
    /\ returned = <<>>
    /\ projectPath \in FindTrees
    /\ \E result \in {searchInFiles(projectPath, extensions, namePatterns)} :
           returned' = [op |-> "searchInFiles", extensions |-> extensions,
                        namePatterns |-> namePatterns, files |-> result]
    /\ UNCHANGED <<rateLimiter, now, admissions, lastCall, pc, req, tempDir, caught,
                   res, disk, trace, walked, elapsed, reports, suspended, waiting, scannerVars>>

NextSearch ==
    \/ \E term \in AppliedTerms : applySearchInContent(term)
    \/ \E extensions \in FindExtensions, namePatterns \in FindNamePatterns :
           applySearchInFiles(extensions, namePatterns)

SpecSearch == InitSearch /\ [][NextSearch]_vars

\* ---------------------------------------------------------------------
\* C21  searchInContent reads at most the first 50 candidates

ContentCandidates == getAllFiles(projectPath, ContentExtensions)

\* the positions of the candidates that contain the term, case ignored
HitPositions(term) ==
    {i \in 1..Len(ContentCandidates) :
        toLowerCase(term) \in contentToLowerCase(readFile(projectPath, ContentCandidates[i]).text)}

ContentSearched == returned # <<>> /\ returned.op = "searchInContent"

\* C21: searchInContent answers true iff one of the first 50 candidates
\* contains the term, case ignored; it reads the candidates in order up to
\* and including the first hit, and never more than 50.
C21_FirstFiftyOnly ==
    ContentSearched =>
        LET early == {i \in HitPositions(returned.term) : i <= 50}
        IN  /\ returned.found <=> early # {}
            /\ Len(returned.read) <= 50
            /\ IF early # {}
               THEN \E i \in early :
                        /\ \A j \in early : i <= j
                        /\ returned.read = SubSeq(ContentCandidates, 1, i)
               ELSE returned.read = SubSeq(ContentCandidates, 1, Min(Len(ContentCandidates), 50))

\* the term stands only in the 51st candidate and beyond: 50 files read,
\* answer false
C21_Witness ==
    /\ ContentSearched
    /\ ~returned.found
    /\ Len(returned.read) = 50
    /\ 51 \in HitPositions(returned.term)

\* a hit in mixed case stops the reading before the last candidate
C21_EarlyWitness ==
    /\ ContentSearched
    /\ returned.found /\ returned.term = "login"
    /\ Len(returned.read) < Len(ContentCandidates)
    /\ "Login" \in readFile(projectPath, returned.read[Len(returned.read)]).text


\* ---------------------------------------------------------------------
\* C22  what searchInFiles returns

\* every regular file of a tree with its path from the root, whatever
\* directory it lies in
RECURSIVE RegularFiles(_, _)
RegularFiles(entries, dir) ==
    UNION {IF entries[i].kind = "dir"
           THEN RegularFiles(entries[i].children, Append(dir, entries[i].name))
           ELSE {[path |-> Append(dir, entries[i].name), name |-> entries[i].name]}
           : i \in DOMAIN entries}

\* a directory on the way to the file is hidden or is node_modules
BelowSkippedDir(path) ==
    \E k \in 1..(Len(path) - 1) :
        Head(path[k]) = DOT \/ path[k] = <<"node_modules">>

\* the paths searchInFiles is to return for the arguments it was given
Wanted ==
    {f.path : f \in {g \in RegularFiles(projectPath, <<>>) :
        /\ ~BelowSkippedDir(g.path)
        /\ extname(g.name) \in returned.extensions
        /\ \/ returned.namePatterns = {}
           \/ \E p \in returned.namePatterns : includes(g.name, p)}}

FilesSearched == returned # <<>> /\ returned.op = "searchInFiles"

\* C22: no path returned by searchInFiles lies below a hidden directory or
\* below node_modules, and every regular file outside such directories that
\* has a requested extension and, when name substrings are given, one of
\* them in its name, is returned exactly once.
C22_SkipsAndReturnsOnce ==
    FilesSearched =>
        /\ \A i \in DOMAIN returned.files : ~BelowSkippedDir(returned.files[i])
        /\ \A p \in Wanted :
               Cardinality({i \in DOMAIN returned.files : returned.files[i] = p}) = 1
        /\ Range(returned.files) \subseteq Wanted

\* a search by name over a workspace that holds matching files in .git, in
\* node_modules and in src/.cache next to the ones returned
C22_Witness ==
    /\ FilesSearched
    /\ returned.namePatterns = {<<"app">>, <<"server">>}
    /\ Len(returned.files) = 4
    /\ Cardinality({f \in RegularFiles(projectPath, <<>>) : BelowSkippedDir(f.path)}) = 4


\* ---------------------------------------------------------------------
\* C23  the framework of the stack detection

FrameworkPackages == <<"next", "react", "vue", "svelte">>
FrameworkLabels == <<"Next.js", "React", "Vue.js", "Svelte">>

\* the label of the first framework package among names, 'None' without one
FirstFramework(names) ==
    IF \E i \in 1..4 : FrameworkPackages[i] \in names
    THEN FrameworkLabels[CHOOSE i \in 1..4 :
             /\ FrameworkPackages[i] \in names
             /\ \A j \in 1..(i - 1) : FrameworkPackages[j] \notin names]
    ELSE "None"

\* the keys of a section of the package manifest of the workspace
Declared(section) ==
    IF ManifestPresent /\ ManifestJson.kind \in {"object", "scalar"}
    THEN keysOrEmpty(ManifestJson[section])
    ELSE {}

Detected == scans >= 1 /\ report.error = <<>>

\* C23: framework is the first of Next.js, React, Vue.js, Svelte whose
\* package is declared in dependencies or devDependencies, 'None' only when
\* neither section declares one.
C23_FrameworkFromEitherSection ==
    Detected =>
        stackDetection.framework =
            FirstFramework(Declared("dependencies") \cup Declared("devDependencies"))

\* What detectFramework does: it looks at dependencies alone.
C23_FrameworkFromDependenciesOnly ==
    Detected => stackDetection.framework = FirstFramework(Declared("dependencies"))

\* next is declared in devDependencies only and framework is 'None'
C23_Witness ==
    /\ Detected
    /\ "next" \in Declared("devDependencies")
    /\ Declared("dependencies") \cap Range(FrameworkPackages) = {}
    /\ stackDetection.framework = "None"

\* ---------------------------------------------------------------------
\* C24  the Static HTML label

DetectedFrameworks == Range(stackDetection.technologies) \cap Range(FrameworkLabels)
HasIndexHtml == lookup(projectPath, <<INDEX_HTML>>).kind # "missing"
LabelledStatic == "Static HTML" \in Range(stackDetection.technologies)

\* C24: technologies holds 'Static HTML' iff index.html exists at the root
\* and none of Next.js, React, Vue.js, Svelte was detected.
C24_StaticIffNoFramework ==
    Detected => (LabelledStatic <=> (HasIndexHtml /\ DetectedFrameworks = {}))

\* What detectStack does: only React and Vue.js keep the label away.
C24_StaticUnlessReactOrVue ==
    Detected =>
        (LabelledStatic <=>
            (HasIndexHtml /\ DetectedFrameworks \cap {"React", "Vue.js"} = {}))

\* index.html next to a detected Next.js: labelled Static HTML all the same
C24_Witness ==
    /\ Detected
    /\ HasIndexHtml
    /\ "Next.js" \in DetectedFrameworks
    /\ LabelledStatic

\* ---------------------------------------------------------------------
\* C27  framework and technologies agree

\* C27: framework differs from 'None' iff technologies holds one of Next.js,
\* React, Vue.js, Svelte, and a framework other than 'None' is an element of
\* technologies.
C27_ViewsAgree ==
    Detected =>
        /\ (stackDetection.framework # "None" <=> DetectedFrameworks # {})
        /\ (stackDetection.framework # "None"
               => stackDetection.framework \in Range(stackDetection.technologies))

\* What detectStack does: a framework other than 'None' is always among the
\* technologies; technologies may hold a framework while framework is 'None'.
C27_FrameworkAmongTechnologies ==
    Detected =>
        (stackDetection.framework # "None"
            => stackDetection.framework \in DetectedFrameworks)

\* technologies holds Next.js, taken from devDependencies; framework is 'None'
C27_Witness ==
    /\ Detected
    /\ "Next.js" \in DetectedFrameworks
    /\ stackDetection.framework = "None"


\* ---------------------------------------------------------------------
\* C26  the categories of every report of one scanner

CategoryNames ==
    <<"Frontend", "Backend", "Authentication", "Database", "Payments", "Security",
      "Deployment Ready">>

\* C26: every report of scan(), a second call on the same scanner included,
\* holds exactly seven categories, one of each name.
C26_SevenCategories ==
    Detected =>
        /\ Len(report.categories) = 7
        /\ \A n \in Range(CategoryNames) :
               Cardinality({i \in DOMAIN report.categories :
                               report.categories[i].name = n}) = 1

\* What scan() does: the constructor alone empties this.categories, so each
\* call appends its seven categories to those of the calls before it.
C26_SevenPerCall ==
    Detected =>
        /\ Len(report.categories) = 7 * scans
        /\ \A i \in DOMAIN report.categories :
               report.categories[i].name = CategoryNames[((i - 1) % 7) + 1]

\* the report of a second call: fourteen categories, every name twice
C26_Witness ==
    /\ Detected
    /\ scans = 2
    /\ Len(report.categories) = 14
    /\ report.categories[8].name = "Frontend"


\* ---------------------------------------------------------------------
\* C28  a rejected call and the stored log

\* the step is a call of rateLimit that was rejected
RejectedStep == lastCall'.client # "none" /\ ~lastCall'.allowed

\* C28: a rejected call leaves every stored log as it was and records no
\* admission, and no stored log ever holds more than 10 entries.
C28_RejectionLeavesLog ==
    /\ [](\A c \in DOMAIN rateLimiter : Len(rateLimiter[c]) <= 10)
    /\ [][RejectedStep => (rateLimiter' = rateLimiter /\ admissions' = admissions)]_vars

\* a call rejected half a window after ten admissions: the log still holds
\* those ten stamps and nothing else
C28_Witness ==
    /\ lastCall.client = "c1" /\ ~lastCall.allowed
    /\ lastCall.time = 1800000
    /\ rateLimiter["c1"] = [i \in 1..10 |-> 0]


\* ---------------------------------------------------------------------
\* C29  admission comes first and is never given back

InHandler == pc # "idle"

\* the stored log of the client whose request is being handled
CallerLog == IF req.client \in DOMAIN rateLimiter THEN rateLimiter[req.client] ELSE <<>>

\* C29: the admission of a request is decided and recorded before anything
\* else is done with it; the recorded slot stays in the client's log through
\* every later step and outcome of the request; and a request that finds 10
\* slots taken is answered 429 without being validated, well-formed or not.
C29_AdmissionFirstAndKept ==
    /\ [](InHandler => trace[1] = "rateLimit")
    /\ []((InHandler /\ lastCall.allowed) => lastCall.time \in Range(CallerLog))
    /\ []((InHandler /\ ~lastCall.allowed) =>
              /\ pc = "done" /\ res.status = 429
              /\ Len(CallerLog) = 10
              /\ trace = <<"rateLimit">>)
    /\ [][InHandler => rateLimiter' = rateLimiter]_vars

\* a well-formed request answered 429 when no report has been sent and no
\* workspace is left: all ten slots went to requests that ended in an error
C29_Witness ==
    /\ pc = "done" /\ res.status = 429
    /\ isValidGitHubUrl(req.repoUrl)
    /\ Len(CallerLog) = 10
    /\ reports = <<>>
    /\ disk = {}


--------------------------------------------------------------------------
(* ProjectFixer (src/README.md 182-1739): the fixes applied to a project   *)
(* from a scan result.  File names the fixer records are kept as the       *)
(* strings it pushes.                                                      *)

\* obj.name as the set of its values: empty when the property is undefined
prop(obj, name) == IF name \in DOMAIN obj THEN {obj[name]} ELSE {}

\* obj.first?.second === value
chainIs(obj, first, second, value) ==
    \E inner \in prop(obj, first) : value \in prop(inner, second)

\* the method applyAuth calls for the stack, "none" when it calls nothing
applyAuth(stack) ==
    IF chainIs(stack, "frontend", "framework", "Next.js") THEN "applyNextJSAuth"
    ELSE IF \/ chainIs(stack, "frontend", "bundler", "Vite")
            \/ chainIs(stack, "frontend", "bundler", "Create React App")
         THEN "applyReactAuth"
    ELSE "none"

applyPayments(stack) ==
    IF chainIs(stack, "frontend", "framework", "Next.js") THEN "applyNextJSPayments"
    ELSE IF \/ chainIs(stack, "frontend", "bundler", "Vite")
            \/ chainIs(stack, "frontend", "bundler", "Create React App")
         THEN "applyReactPayments"
    ELSE "none"

applyDeployment(stack) ==
    IF chainIs(stack, "frontend", "framework", "Next.js") THEN "applyNextJSDeployment"
    ELSE IF chainIs(stack, "frontend", "bundler", "Vite") THEN "applyViteDeployment"
    ELSE IF chainIs(stack, "backend", "language", "Python") THEN "applyPythonDeployment"
    ELSE "none"

\* new ProjectFixer(projectPath, scanResult): the lists it keeps, with what
\* it has written to package.json and .env.example so far
newFixer(tree) ==
    [filesModified |-> <<>>, filesCreated |-> <<>>, dependencies |-> {},
     scripts |-> {}, envVars |-> {}, isTypeScript |-> fileExists(tree, <<TSCONFIG>>)]

\* `name.${this.isTypeScript ? ts : js}`
typed(fx, ts, js) == IF fx.isTypeScript THEN ts ELSE js

createdFile(fx, name) == [fx EXCEPT !.filesCreated = Append(@, name)]

\* getPackageJson(): {} without a manifest, the parsed manifest otherwise
getPackageJson(tree) ==
    IF fileExists(tree, <<PACKAGE_JSON>>) THEN readFile(tree, <<PACKAGE_JSON>>).json
    ELSE EmptyObject

\* JSON.parse throws on a manifest that is not JSON; reading a property of
\* a null manifest throws as well
packageJsonThrows(tree) ==
    /\ fileExists(tree, <<PACKAGE_JSON>>)
    /\ readFile(tree, <<PACKAGE_JSON>>).json.kind \in {"invalid", "null"}

\* packageJson.dependencies && packageJson.dependencies[name], the writes
\* of this fixer included
hasDependency(tree, fx, name) ==
    name \in keysOrEmpty(getPackageJson(tree).dependencies) \cup fx.dependencies

addDependencies(fx, deps) ==
    [fx EXCEPT !.dependencies = @ \cup deps,
               !.filesModified = Append(@, "package.json")]

ensurePackageJsonScripts(tree, fx, scripts) ==
    LET missing == {s \in scripts : ~hasScript(getPackageJson(tree), s)} \ fx.scripts
    IN  IF missing = {} THEN fx
        ELSE [fx EXCEPT !.scripts = @ \cup missing,
                        !.filesModified = Append(@, "package.json")]

\* addEnvVars: the file is written before existsSync is asked, so the file
\* is always recorded as modified (lines 1728-1734); each marker of an
\* existing .env.example is the name of one of its lines
addEnvVars(tree, fx, names) ==
    LET existing == readFile(tree, <<ENV_EXAMPLE>>).text \cup fx.envVars
    IN  IF names \subseteq existing THEN fx
        ELSE [fx EXCEPT !.envVars = @ \cup names,
                        !.filesModified = Append(@, ".env.example")]

hasClerkAuth(tree, fx) ==
    \/ hasDependency(tree, fx, "@clerk/nextjs")
    \/ hasDependency(tree, fx, "@clerk/clerk-react")

isNextJSAppRouter(tree) == fileExists(tree, <<<<"app">>>>)

\* fs.existsSync of a root file, the files of this fixer included
existsNow(tree, fx, rel, name) ==
    fileExists(tree, <<rel>>) \/ name \in Range(fx.filesCreated)

createUnlessPresent(tree, fx, rel, name) ==
    IF existsNow(tree, fx, rel, name) THEN fx ELSE createdFile(fx, name)

applyNextJSAuth(tree, fx) ==
    IF hasClerkAuth(tree, fx) THEN fx
    ELSE LET f1 == addDependencies(fx, {"@clerk/nextjs"})
             f2 == IF isNextJSAppRouter(tree)
                   THEN createdFile(createdFile(createdFile(f1,
                            typed(fx, "middleware.ts", "middleware.js")),
                            typed(fx, "app/sign-in/[[...sign-in]]/page.tsx",
                                      "app/sign-in/[[...sign-in]]/page.jsx")),
                            typed(fx, "app/sign-up/[[...sign-up]]/page.tsx",
                                      "app/sign-up/[[...sign-up]]/page.jsx"))
                   ELSE createdFile(createdFile(f1,
                            typed(fx, "pages/sign-in/[[...index]].tsx",
                                      "pages/sign-in/[[...index]].jsx")),
                            typed(fx, "pages/sign-up/[[...index]].tsx",
                                      "pages/sign-up/[[...index]].jsx"))
         IN  addEnvVars(tree, f2,
                        {"NEXT_PUBLIC_CLERK_PUBLISHABLE_KEY", "CLERK_SECRET_KEY",
                         "NEXT_PUBLIC_CLERK_SIGN_IN_URL", "NEXT_PUBLIC_CLERK_SIGN_UP_URL"})

applyNextJSPayments(tree, fx) ==
    IF hasDependency(tree, fx, "stripe") THEN fx
    ELSE LET f1 == addDependencies(fx, {"stripe", "@stripe/stripe-js"})
             f2 == createdFile(f1, typed(fx, "src/lib/stripe.ts", "src/lib/stripe.js"))
             f3 == IF isNextJSAppRouter(tree)
                   THEN createdFile(createdFile(f2,
                            typed(fx, "app/api/checkout/route.ts",
                                      "app/api/checkout/route.js")),
                            typed(fx, "app/api/webhooks/stripe/route.ts",
                                      "app/api/webhooks/stripe/route.js"))
                   ELSE createdFile(createdFile(f2,
                            typed(fx, "pages/api/checkout.ts", "pages/api/checkout.js")),
                            typed(fx, "pages/api/webhooks.ts", "pages/api/webhooks.js"))
             f4 == createdFile(f3, typed(fx, "src/components/PricingPage.tsx",
                                             "src/components/PricingPage.jsx"))
         IN  addEnvVars(tree, f4, {"STRIPE_SECRET_KEY", "STRIPE_PUBLISHABLE_KEY",
                                   "STRIPE_WEBHOOK_SECRET"})

applyNextJSDeployment(tree, fx) ==
    LET f1 == createUnlessPresent(tree, fx, <<"next", DOT, "config", DOT, "js">>,
                                  "next.config.js")
        f2 == ensurePackageJsonScripts(tree, f1, {"build", "start"})
        f3 == createUnlessPresent(tree, f2, DOCKERFILE, "Dockerfile")
        f4 == createUnlessPresent(tree, f3, <<DOT, "dockerignore">>, ".dockerignore")
    IN  createUnlessPresent(tree, f4, <<"railway", DOT, "json">>, "railway.json")

\* the method one entry of fixes selects
selected(stack, fix) ==
    CASE fix = "auth"       -> applyAuth(stack)
      [] fix = "payments"   -> applyPayments(stack)
      [] fix = "deployment" -> applyDeployment(stack)
      [] OTHER              -> "unknown"

NextJSMethods == {"applyNextJSAuth", "applyNextJSPayments", "applyNextJSDeployment"}

\* the fixer after the selected method has run
applied(tree, fx, method) ==
    CASE method = "applyNextJSAuth"       -> applyNextJSAuth(tree, fx)
      [] method = "applyNextJSPayments"   -> applyNextJSPayments(tree, fx)
      [] method = "applyNextJSDeployment" -> applyNextJSDeployment(tree, fx)
      [] OTHER                            -> fx

RECURSIVE fixLoop(_, _, _, _)
fixLoop(tree, stack, fixes, fx) ==
    IF fixes = <<>> THEN fx
    ELSE fixLoop(tree, stack, Tail(fixes), applied(tree, fx, selected(stack, Head(fixes))))

\* applyFixes(fixes): a throw inside the loop leaves modified and created
\* empty (lines 224-228); an unknown fix is reported and the loop goes on
applyFixes(tree, stack, fixes) ==
    LET methods == [i \in DOMAIN fixes |-> selected(stack, fixes[i])]
        unknown == SelectSeq(fixes, LAMBDA f : selected(stack, f) = "unknown")
        finish(fx) == [modified |-> fx.filesModified, created |-> fx.filesCreated,
                       dependencies |-> fx.dependencies, errors |-> unknown,
                       methods |-> methods]
    IN  IF packageJsonThrows(tree) /\ Range(methods) \cap NextJSMethods # {}
        THEN [modified |-> <<>>, created |-> <<>>, dependencies |-> {},
              errors |-> Append(unknown, "Unexpected token"), methods |-> methods]
        ELSE Strict(fixLoop(tree, stack, fixes, newFixer(tree)), finish)

--------------------------------------------------------------------------
(* The fixer applied to scanned projects                                   *)

FixDeps == {"next", "react", "stripe", "@clerk/nextjs"}

\* projects with a manifest, with or without an app directory, a TypeScript
\* configuration and a container descriptor
FixWorkspaces ==
    {app \o docker \o manifest \o ts :
        app \in {<<>>, <<Dir(<<"app">>, <<>>)>>},
        docker \in {<<>>, <<File(DOCKERFILE, {"FROM node"}, <<>>, NoJson)>>},
        manifest \in {<<>>, <<File(PACKAGE_JSON, {"not json"}, <<>>, NoJson)>>}
                         \cup {<<PackageJsonFile(Field(d), NoField, NoField)>> :
                                     d \in SUBSET FixDeps},
        ts \in {<<>>, <<File(TSCONFIG, {}, <<>>, NoJson)>>}}

\* scan results of the shape the fixer reads: stackDetection.frontend and
\* stackDetection.backend (lines 411, 413, 1386)
NestedStacks ==
    {[frontend |-> [framework |-> f, bundler |-> "Webpack"],
      backend |-> [language |-> "Node.js"]] : f \in {"Next.js", "React"}}

FixLists == {<<"auth">>, <<"payments">>, <<"deployment">>,
             <<"auth", "payments", "deployment">>, <<"auth", "seo">>}

InitFix ==
    /\ ServerIdle
    /\ projectPath \in FixWorkspaces
    /\ stackDetection = NoStack
    /\ categories = <<>>
    /\ report = NoReport
    /\ scans = 0

\* new ProjectFixer(projectPath, await scanner.scan()).applyFixes(fixes)
fixScanned(fixes) ==
    /\ returned = <<>>
    /\ scans >= 1
    /\ report.error = <<>>
    /\ \E result \in {applyFixes(projectPath, report.stackDetection, fixes)} :
           returned' = [op |-> "applyFixes", given |-> "scanner", fixes |-> fixes,
                        framework |-> report.stackDetection.framework,
                        results |-> result]
    /\ UNCHANGED <<rateLimiter, now, admissions, lastCall, pc, req, tempDir, caught,
                   res, disk, trace, walked, elapsed, reports, suspended, waiting, scannerVars>>

\* new ProjectFixer(projectPath, scanResult).applyFixes(fixes) with a scan
\* result that has a frontend section
fixNested(stack, fixes) ==
    /\ returned = <<>>
    /\ \E result \in {applyFixes(projectPath, stack, fixes)} :
           returned' = [op |-> "applyFixes", given |-> "nested", fixes |-> fixes,
                        framework |-> stack.frontend.framework,
                        results |-> result]
    /\ UNCHANGED <<rateLimiter, now, admissions, lastCall, pc, req, tempDir, caught,
                   res, disk, trace, walked, elapsed, reports, suspended, waiting, scannerVars>>

scanForFix ==
    /\ returned = <<>>
    /\ scan

NextFix ==
    \/ scanForFix
    \/ \E fixes \in FixLists : fixScanned(fixes)
    \/ \E stack \in NestedStacks, fixes \in FixLists : fixNested(stack, fixes)

SpecFix == InitFix /\ [][NextFix]_vars

\* ---------------------------------------------------------------------
\* C30  the fixer follows the scanner's detection

FixedAfterScan == returned # <<>> /\ returned.given = "scanner"

\* the method the Next.js branch of a fix is
NextJSMethod(fix) ==
    CASE fix = "auth"       -> "applyNextJSAuth"
      [] fix = "payments"   -> "applyNextJSPayments"
      [] fix = "deployment" -> "applyNextJSDeployment"
      [] OTHER              -> "unknown"

\* C30: given a scan result of ProjectScanner that reports framework
\* 'Next.js', every auth, payments or deployment fix takes its Next.js
\* branch, and an auth fix on a project without Clerk adds @clerk/nextjs
\* and records the files it touched.
C30_FixesFollowDetection ==
    (FixedAfterScan /\ returned.framework = "Next.js") =>
        /\ \A i \in DOMAIN returned.fixes :
               returned.results.methods[i] = NextJSMethod(returned.fixes[i])
        /\ ("auth" \in Range(returned.fixes)
              /\ "@clerk/nextjs" \notin Declared("dependencies"))
             => /\ "@clerk/nextjs" \in returned.results.dependencies
                /\ returned.results.modified # <<>>
                /\ returned.results.created # <<>>

\* What the code does: stackDetection has no frontend or backend section
\* (src/scanner.js 99-106), so on a scan result of ProjectScanner every
\* auth, payments and deployment fix selects no method and the fixer
\* records nothing, whatever framework the scanner reported; on a result
\* with frontend.framework 'Next.js' the Next.js methods are selected.
C30_ScannerResultSelectsNothing ==
    /\ FixedAfterScan =>
          /\ \A i \in DOMAIN returned.fixes :
                 returned.results.methods[i] \in {"none", "unknown"}
          /\ returned.results.modified = <<>>
          /\ returned.results.created = <<>>
          /\ returned.results.dependencies = {}
    /\ (returned # <<>> /\ returned.given = "nested" /\ returned.framework = "Next.js")
          => \A i \in DOMAIN returned.fixes :
                 returned.fixes[i] = "seo"
                   \/ returned.results.methods[i] = NextJSMethod(returned.fixes[i])

C30_Witness ==
    /\ FixedAfterScan
    /\ returned.framework = "Next.js"
    /\ returned.fixes = <<"auth">>
    /\ "@clerk/nextjs" \notin Declared("dependencies")
    /\ returned.results.methods = <<"none">>
    /\ returned.results.modified = <<>>
    /\ returned.results.created = <<>>

\* the Next.js branch itself works when the result has the nested shape
C30_NestedWitness ==
    /\ returned # <<>>
    /\ returned.given = "nested"
    /\ returned.fixes = <<"auth">>
    /\ returned.results.methods = <<"applyNextJSAuth">>
    /\ "@clerk/nextjs" \in returned.results.dependencies
    /\ "middleware.ts" \in Range(returned.results.created)


--------------------------------------------------------------------------
(* Requests that arrive while a clone runs.  The server is one Node.js     *)
(* process: the handler of POST /api/scan runs on its only JavaScript      *)
(* thread, and cloneRepository calls execSync (lines 62-65), which does    *)
(* not return to the event loop until git has exited or the 30 second      *)
(* timeout has killed it.  The socket keeps accepting requests meanwhile;  *)
(* their handlers run when the thread is free.  As in the specification    *)
(* of requests in flight together, a handler that got past the clone runs  *)
(* to the await of line 211 and parks there.                               *)

MaxWaiting == 2     \* most requests accepted and not yet handled

BlockClients == {"c1", "c2"}
BlockUrls == {<<>>, <<SCHEME, HOST, SLASH, "a", SLASH, "a">>}

\* the thread is inside no handler and inside no execSync
threadFree == pc = "idle"

\* a request reaches the listening socket
arrive(c, url) ==
    /\ Len(waiting) < MaxWaiting
    /\ waiting' = Append(waiting, [client |-> c, repoUrl |-> url])
    /\ UNCHANGED <<rateLimiter, now, admissions, lastCall, pc, req, tempDir, caught,
                   res, disk, trace, walked, elapsed, reports, suspended, returned,
                   scannerVars>>

\* the event loop runs the handler of the oldest waiting request: lines
\* 24-48, then lines 177-201 up to the execSync call of line 62
serve ==
    /\ threadFree
    /\ waiting # <<>>
    /\ suspended < MaxSuspended
    /\ waiting' = Tail(waiting)
    /\ \E decision \in {rateLimit(rateLimiter, Head(waiting).client, now)} :
           /\ rateLimiter' = decision.map
           /\ RecordCall(Head(waiting).client, now, decision)
           /\ IF decision.allowed /\ isValidGitHubUrl(Head(waiting).repoUrl)
              THEN /\ pc' = "cloning"
                   /\ req' = Head(waiting)
              ELSE UNCHANGED <<pc, req>>
    /\ UNCHANGED <<now, tempDir, caught, res, disk, trace, walked, elapsed, reports,
                   suspended, returned, scannerVars>>

\* execSync returns, throws, or is timed out: the handler goes on to the
\* await of line 211 after a checkout, to its response after a failure
cloneEnds(cloned) ==
    /\ pc = "cloning"
    /\ pc' = "idle"
    /\ req' = [client |-> "none", repoUrl |-> <<>>]
    /\ suspended' = IF cloned THEN suspended + 1 ELSE suspended
    /\ UNCHANGED <<rateLimiter, now, admissions, lastCall, tempDir, caught, res, disk,
                   trace, walked, elapsed, reports, returned, waiting, scannerVars>>

\* lines 211-263 of a parked handler, run when the thread is free
resumeFree ==
    /\ threadFree
    /\ resume

NextBlock ==
    \/ \E c \in BlockClients, url \in BlockUrls : arrive(c, url)
    \/ serve
    \/ \E cloned \in BOOLEAN : cloneEnds(cloned)
    \/ resumeFree

SpecBlock == InitGuard /\ [][NextBlock]_vars

\* ---------------------------------------------------------------------
\* C25  unrelated requests while a clone is in progress

CloneInProgress == pc = "cloning"

\* a request of another client than the cloning one is waiting
OtherWaiting == \E i \in DOMAIN waiting : waiting[i].client # req.client

\* C25: while one scan's clone is in progress, unrelated requests can make
\* progress: the handler of a waiting request of another client can run
\* (its admission check and validation), and a parked scan can go on to its
\* response, before the clone has returned or timed out.
C25_OthersProceedDuringClone ==
    /\ (CloneInProgress /\ OtherWaiting) => ENABLED serve
    /\ (CloneInProgress /\ suspended > 0) => ENABLED resumeFree

\* What the code does: from the execSync call to its return no handler of
\* another request runs and no parked scan is resumed; the rate limiter,
\* the responses and the parked handlers stay as they are, and requests
\* only queue up.
C25_CloneStallsAll ==
    /\ [](CloneInProgress => (~ENABLED serve /\ ~ENABLED resumeFree))
    /\ [][(CloneInProgress /\ pc' = "cloning")
             => /\ UNCHANGED <<rateLimiter, admissions, lastCall, suspended, res, req>>
                /\ Len(waiting') >= Len(waiting)]_vars

\* a request of another client and a parked scan both wait on a clone
C25_Witness ==
    /\ CloneInProgress
    /\ req.client = "c1"
    /\ Len(waiting) = MaxWaiting
    /\ \A i \in DOMAIN waiting : waiting[i].client = "c2"
    /\ suspended > 0


==========================================================================
